---- MODULE Spec2Model ----
(***************************************************************************)
(* Chunk streaming, structure registry and road graph of the procedural    *)
(* world generator (src/js/chunk.js, src/js/road.js and the modules they   *)
(* import).  32-bit words are kept as pairs of 16-bit halves so that the   *)
(* arithmetic of mulberry32 stays inside the checker's integer range.      *)
(***************************************************************************)
EXTENDS Integers, Sequences, FiniteSets, TLC

\* ------------------------------------------------------------------------
\* 32-bit word arithmetic (ToInt32 / ToUint32 / Math.imul of the JS source)
\* ------------------------------------------------------------------------

\* F applied to the value of e.  An operator argument or a LET definition
\* may be evaluated again at each of its uses; a value bound by a set
\* constructor is evaluated once.
Bind(e, F(_)) == CHOOSE r \in {F(x) : x \in {e}} : TRUE

Bind2(e1, e2, F(_, _)) == CHOOSE r \in {F(x, y) : x \in {e1}, y \in {e2}} : TRUE

Bind3(e1, e2, e3, F(_, _, _)) ==
  CHOOSE r \in {F(x, y, z) : x \in {e1}, y \in {e2}, z \in {e3}} : TRUE

\* the function f with every element evaluated
Eager(f) == f @@ <<>>

Half == 65536

\* ToUint32 of an integer: the word n mod 2^32, as [hi, lo].
ToWord(n) == [hi |-> (n \div Half) % Half, lo |-> n % Half]

WordAdd(a0, b0) ==
  Bind2(a0, b0, LAMBDA a, b :
    Bind(a.lo + b.lo, LAMBDA s :
      [hi |-> (a.hi + b.hi + (s \div Half)) % Half, lo |-> s % Half]))

RECURSIVE Xor16(_, _, _)
\* a ^ b on the low n bits
Xor16(a, b, n) ==
  IF n = 0 THEN 0
  ELSE (((a % 2) + (b % 2)) % 2) + (2 * Xor16(a \div 2, b \div 2, n - 1))

RECURSIVE Or16(_, _, _)
\* a | b on the low n bits
Or16(a, b, n) ==
  IF n = 0 THEN 0
  ELSE (IF (a % 2) = 1 \/ (b % 2) = 1 THEN 1 ELSE 0)
         + (2 * Or16(a \div 2, b \div 2, n - 1))

WordXor(a0, b0) ==
  Bind2(a0, b0, LAMBDA a, b :
    [hi |-> Xor16(a.hi, b.hi, 16), lo |-> Xor16(a.lo, b.lo, 16)])

\* t | c for a small constant c (c < 2^16)
WordOrSmall(a0, c) ==
  Bind(a0, LAMBDA a : [hi |-> a.hi, lo |-> Or16(a.lo, c, 16)])

\* t >>> k for 0 < k < 16
WordShr(a0, k) ==
  Bind(a0, LAMBDA a :
    [hi |-> a.hi \div (2 ^ k),
     lo |-> (a.lo \div (2 ^ k)) + ((a.hi % (2 ^ k)) * (2 ^ (16 - k)))])

\* full product of two 16-bit halves, as a word
Mul16(x, y) ==
  Bind2((x \div 256) * y, (x % 256) * y, LAMBDA p1, p0 :
    Bind(((p1 % 256) * 256) + p0, LAMBDA m :
      [hi |-> ((p1 \div 256) + (m \div Half)) % Half, lo |-> m % Half]))

\* Math.imul: low 32 bits of the product
WordImul(a0, b0) ==
  Bind2(a0, b0, LAMBDA a, b :
    Bind(Mul16(a.lo, b.lo), LAMBDA ll :
      [hi |-> (ll.hi + Mul16(a.hi, b.lo).lo + Mul16(a.lo, b.hi).lo) % Half,
       lo |-> ll.lo]))

\* ------------------------------------------------------------------------
\* Seeded random stream (seed.js)
\* ------------------------------------------------------------------------

\* 0x6d2b79f5, the increment of mulberry32
MulberryStep == [hi |-> 27947, lo |-> 31221]

\* the closure variable a after n calls: seed + n * 0x6d2b79f5
MulberryState(seed, n) ==
  WordAdd(ToWord(seed), WordImul(ToWord(n), MulberryStep))

\* the n-th value (n >= 1) returned by mulberry32(seed), as the numerator
\* k of k / 2^32
mulberry32(seed, n) ==
  Bind(MulberryState(seed, n), LAMBDA t0 :
    Bind(WordImul(WordXor(t0, WordShr(t0, 15)), WordOrSmall(t0, 1)), LAMBDA t1 :
      Bind(WordXor(t1, WordAdd(t1,
             WordImul(WordXor(t1, WordShr(t1, 7)), WordOrSmall(t1, 61)))),
           LAMBDA t2 : WordXor(t2, WordShr(t2, 14)))))

\* one call of the closure returned by mulberry32 whose variable a holds the
\* word a0: the variable afterwards and the numerator of the value returned
MulberryCall(a0) ==
  Bind(WordAdd(a0, MulberryStep), LAMBDA t0 :
    Bind(WordImul(WordXor(t0, WordShr(t0, 15)), WordOrSmall(t0, 1)), LAMBDA t1 :
      Bind(WordXor(t1, WordAdd(t1,
             WordImul(WordXor(t1, WordShr(t1, 7)), WordOrSmall(t1, 61)))),
           LAMBDA t2 : [a |-> t0, value |-> WordXor(t2, WordShr(t2, 14))])))

createSeededRandom(seed, n) == mulberry32(seed, n)

\* Math.floor(rng() * m) for the draw with numerator k: floor(k * m / 2^32)
FloorDraw(k0, m) ==
  Bind(k0, LAMBDA k : ((k.hi * m) + ((k.lo * m) \div Half)) \div Half)

\* a range that includes max: floor(rng() * (max - min + 1)) + min
seededRandomIntInclusive(k, min, max) == FloorDraw(k, (max - min) + 1) + min

\* seededRandomInt for the draw with numerator k
seededRandomInt(k, min, max) == FloorDraw(k, max - min) + min

\* rng() < p / 100 for the draw with numerator k
DrawBelowPercent(k0, p) ==
  Bind(k0, LAMBDA k : (k.hi * 100) + ((k.lo * 100) \div Half) < p * Half)

\* ------------------------------------------------------------------------
\* Bounds of the model
\* ------------------------------------------------------------------------

\* world seeds the generator is run with
Seeds == {12345, 22399, 72}

\* window of chunk coordinates that are requested
MaxCX == 0
ChunkXs == (0 - 1)..MaxCX
ChunkYs == {0, 1}

\* chunk coordinates of direct generateChunk calls: one more column
CallXs == (0 - 1)..(MaxCX + 1)

\* keepDistance arguments of unloadDistantChunks
MaxKeep == 1
Keeps == 0..MaxKeep

\* side of a chunk in tiles (CONFIG.CHUNK_SIZE scaled down)
CHUNK_SIZE == 6

\* null of a string-valued field
Null == "null"

\* an absent (null or undefined) record, number or array, and a present one
None == <<>>
Some(v) == <<v>>

\* ------------------------------------------------------------------------
\* CONFIG (config.js); thresholds in hundredths
\* ------------------------------------------------------------------------

STRUCTURE_SPACING == 4
STRUCTURE_SPAWN_CHANCE_VILLAGE == 3
STRUCTURE_SPAWN_CHANCE_DUNGEON == 5

WATER_THRESHOLD == 30
SAND_THRESHOLD == 35
MOUNTAIN_THRESHOLD == 80
SNOW_THRESHOLD == 90
DESERT_TEMP == 70
DESERT_HUMIDITY == 40
SNOW_TEMP == 30
FOREST_HUMIDITY == 60

FOREST_TREE_DENSITY == 55
GRASS_TREE_DENSITY == 75
GRASS_ROCK_DENSITY_MIN == 65
GRASS_ROCK_DENSITY_MAX == 70
MOUNTAIN_ROCK_DENSITY == 60
DESERT_ROCK_DENSITY == 70

\* ------------------------------------------------------------------------
\* Keys: the string `${cx},${cy}` as a sequence of characters
\* ------------------------------------------------------------------------

DigitChars == <<"0", "1", "2", "3", "4", "5", "6", "7", "8", "9">>

RECURSIVE NatToStr(_)
NatToStr(n) ==
  IF n < 10 THEN <<DigitChars[n + 1]>>
  ELSE NatToStr(n \div 10) \o <<DigitChars[(n % 10) + 1]>>

\* String(n) of an integer
NumToStr(n) == IF n < 0 THEN <<"-">> \o NatToStr(0 - n) ELSE NatToStr(n)

getChunkKey(cx, cy) == NumToStr(cx) \o <<",">> \o NumToStr(cy)

getStructureKey(cx, cy) == NumToStr(cx) \o <<",">> \o NumToStr(cy)

DigitValue(c) == (CHOOSE i \in 1..10 : DigitChars[i] = c) - 1

RECURSIVE StrToNat(_)
StrToNat(s) ==
  IF Len(s) = 0 THEN 0
  ELSE 10 * StrToNat(SubSeq(s, 1, Len(s) - 1)) + DigitValue(s[Len(s)])

\* Number(s) of a decimal integer string
StrToNum(s) ==
  IF s[1] = "-" THEN 0 - StrToNat(Tail(s)) ELSE StrToNat(s)

\* key.split(",").map(Number)
ParseKey(key) ==
  LET c == CHOOSE i \in 1..Len(key) : key[i] = ","
  IN  <<StrToNum(SubSeq(key, 1, c - 1)), StrToNum(SubSeq(key, c + 1, Len(key)))>>

Abs(n) == IF n < 0 THEN 0 - n ELSE n

\* ------------------------------------------------------------------------
\* Biome classification (biome.js)
\* ------------------------------------------------------------------------

\* the cascade with the climate tests ahead of the mountain tiers
classifyBiomeClimateFirst(elevation, temperature, humidity) ==
  IF elevation < WATER_THRESHOLD THEN "water"
  ELSE IF elevation < SAND_THRESHOLD THEN "sand"
  ELSE IF temperature > DESERT_TEMP /\ humidity < DESERT_HUMIDITY THEN "desert"
  ELSE IF temperature < SNOW_TEMP THEN "snow"
  ELSE IF elevation > MOUNTAIN_THRESHOLD
       THEN (IF elevation > SNOW_THRESHOLD THEN "snow" ELSE "mountain")
  ELSE IF humidity > FOREST_HUMIDITY THEN "forest"
  ELSE "grass"

classifyBiome(elevation, temperature, humidity) ==
  IF elevation < WATER_THRESHOLD THEN "water"
  ELSE IF elevation < SAND_THRESHOLD THEN "sand"
  ELSE IF elevation > MOUNTAIN_THRESHOLD
       THEN (IF elevation > SNOW_THRESHOLD THEN "snow" ELSE "mountain")
  ELSE IF temperature > DESERT_TEMP /\ humidity < DESERT_HUMIDITY THEN "desert"
  ELSE IF temperature < SNOW_TEMP THEN "snow"
  ELSE IF humidity > FOREST_HUMIDITY THEN "forest"
  ELSE "grass"

\* ------------------------------------------------------------------------
\* Structure templates (structure.js)
\* ------------------------------------------------------------------------

StructureTypes == {"village", "dungeon"}

STRUCTURE_TEMPLATES ==
  [village |-> << <<".", ".", ".", ".", ".">>,
                  <<".", "V", "V", "V", ".">>,
                  <<".", "V", "V", "V", ".">>,
                  <<".", "V", "V", "V", ".">>,
                  <<".", ".", ".", ".", ".">> >>,
   dungeon |-> << <<".", ".", "D", ".", ".">>,
                  <<".", "D", "D", "D", ".">>,
                  <<"D", "D", "D", "D", "D">>,
                  <<".", "D", "D", "D", ".">>,
                  <<".", ".", "D", ".", ".">> >>]

\* a quarter turn the other way round: rotated[y][x] = result[x][size - y - 1]
RotateOnceCounter(t0) ==
  Bind(t0, LAMBDA t :
    Eager([y \in 1..Len(t) |-> Eager([x \in 1..Len(t) |-> t[x][Len(t) - y + 1]])]))

\* one clockwise quarter turn: rotated[y][x] = result[size - x - 1][y]
RotateOnce(t0) ==
  Bind(t0, LAMBDA t :
    Eager([y \in 1..Len(t) |-> Eager([x \in 1..Len(t) |-> t[Len(t) - x + 1][y]])]))

\* r quarter turns, 0 <= r <= 3
RotateTimes(t, r) ==
  CASE r = 0 -> t
    [] r = 1 -> RotateOnce(t)
    [] r = 2 -> RotateOnce(RotateOnce(t))
    [] r = 3 -> RotateOnce(RotateOnce(RotateOnce(t)))

rotateTemplate(template, rotations) == RotateTimes(template, rotations % 4)

scaleTemplate(template0, scale) ==
  Bind(template0, LAMBDA template :
    IF scale = 1 THEN template
    ELSE Eager([y \in 1..(Len(template) * scale) |->
           Eager([x \in 1..(Len(template[((y - 1) \div scale) + 1]) * scale) |->
              template[((y - 1) \div scale) + 1][((x - 1) \div scale) + 1]])]))

getRandomizedTemplate(structureType, seed) ==
  IF structureType \notin DOMAIN STRUCTURE_TEMPLATES THEN None
  ELSE Bind2(FloorDraw(createSeededRandom(seed, 1), 4),
             1 + FloorDraw(createSeededRandom(seed, 2), 2),
             LAMBDA rotation, scale :
               Some([template |-> scaleTemplate(
                       rotateTemplate(STRUCTURE_TEMPLATES[structureType], rotation),
                       scale),
                     rotation |-> rotation,
                     scale |-> scale]))

\* placement that lets a village stand on every biome but water
canPlaceStructureAnyLand(structureType, biomeName, isWater) ==
  IF isWater THEN FALSE
  ELSE IF structureType = "village" THEN biomeName # "water"
  ELSE IF structureType = "dungeon" THEN biomeName # "water"
  ELSE FALSE

canPlaceStructure(structureType, biomeName, isWater) ==
  IF isWater THEN FALSE
  ELSE IF structureType = "village"
       THEN biomeName = "grass" \/ biomeName = "forest" \/ biomeName = "grassland"
  ELSE IF structureType = "dungeon" THEN biomeName # "water"
  ELSE FALSE

\* ------------------------------------------------------------------------
\* Noise layers (noise.js, createNoiseLayers): the normalised sample of each
\* seeded layer at a world position, in hundredths.  The simplex sampler is
\* a library; a fixed seed-dependent lattice stands in for it: the value is
\* constant on patches of `patch` tiles and takes NoiseLevels levels.
\* ------------------------------------------------------------------------

NoiseLevels == 21

SampleLayer(seed, seedOffset, patch, mx, my, wx, wy) ==
  ((((wx \div patch) * mx) + ((wy \div patch) * my)
      + ((seed + seedOffset) % 89)) % NoiseLevels) * 5

\* normalizeNoise(elevation(worldX * NOISE_SCALE + warp * 8, ...))
ElevationAt(seed, wx, wy) == SampleLayer(seed, 1, 3, 8, 5, wx, wy)

\* normalizeNoise(temperature(worldX * TEMP_SCALE, worldY * TEMP_SCALE))
TemperatureAt(seed, wx, wy) == SampleLayer(seed, 2, 3, 3, 10, wx, wy)

\* normalizeNoise(humidity(worldX * HUMIDITY_SCALE, worldY * HUMIDITY_SCALE))
HumidityAt(seed, wx, wy) == SampleLayer(seed, 3, 3, 11, 2, wx, wy)

\* normalizeNoise(scatterNoise(worldX * SCATTER_SCALE, worldY * SCATTER_SCALE))
ScatterDensityAt(seed, wx, wy) == SampleLayer(seed, 999, 1, 5, 9, wx, wy)

\* ------------------------------------------------------------------------
\* Object scatter (scatter.js)
\* ------------------------------------------------------------------------

\* scatter whose grass rock band has no upper end
getScatterTypeOpenBand(tile, density) ==
  IF tile.structure # Null \/ tile.biome = "water" THEN Null
  ELSE IF tile.biome = "forest" /\ density > FOREST_TREE_DENSITY THEN "tree"
  ELSE IF (tile.biome = "grass" \/ tile.biome = "grassland")
          /\ density > GRASS_ROCK_DENSITY_MIN THEN "rock"
  ELSE IF (tile.biome = "grass" \/ tile.biome = "grassland")
          /\ density > GRASS_TREE_DENSITY THEN "tree"
  ELSE IF tile.biome = "mountain" /\ density > MOUNTAIN_ROCK_DENSITY THEN "rock"
  ELSE IF tile.biome = "desert" /\ density > DESERT_ROCK_DENSITY THEN "rock"
  ELSE Null

getScatterType(tile, density) ==
  IF tile.structure # Null \/ tile.biome = "water" THEN Null
  ELSE IF tile.biome = "forest" /\ density > FOREST_TREE_DENSITY THEN "tree"
  ELSE IF (tile.biome = "grass" \/ tile.biome = "grassland")
          /\ density > GRASS_TREE_DENSITY THEN "tree"
  ELSE IF (tile.biome = "grass" \/ tile.biome = "grassland")
          /\ density > GRASS_ROCK_DENSITY_MIN
          /\ density < GRASS_ROCK_DENSITY_MAX THEN "rock"
  ELSE IF tile.biome = "mountain" /\ density > MOUNTAIN_ROCK_DENSITY THEN "rock"
  ELSE IF tile.biome = "desert" /\ density > DESERT_ROCK_DENSITY THEN "rock"
  ELSE Null

\* ------------------------------------------------------------------------
\* Autotiling (autotile.js)
\* ------------------------------------------------------------------------

BIOME_GROUPS ==
  [water |-> 0, sand |-> 1, grass |-> 2, grassland |-> 2, forest |-> 3,
   mountain |-> 4, snow |-> 5, desert |-> 6, village |-> 7, dungeon |-> 8]

BIOME_TRANSITIONS ==
  [g \in 0..8 |->
     CASE g = 0 -> <<0, 1>>
       [] g = 1 -> <<1, 0, 2>>
       [] g = 2 -> <<2, 3, 1>>
       [] g = 3 -> <<3, 2>>
       [] g = 4 -> <<4, 5>>
       [] g = 5 -> <<5, 4>>
       [] g = 6 -> <<6, 1>>
       [] g = 7 -> <<7, 2>>
       [] g = 8 -> <<8>>]

Includes(seq, v) == \E i \in 1..Len(seq) : seq[i] = v

canTransition(fromBiome, toBiome) ==
  IF fromBiome = toBiome THEN TRUE
  ELSE IF fromBiome \notin DOMAIN BIOME_GROUPS \/ toBiome \notin DOMAIN BIOME_GROUPS
       THEN FALSE
  ELSE Includes(BIOME_TRANSITIONS[BIOME_GROUPS[fromBiome]], BIOME_GROUPS[toBiome])

Variant(id, priority) == [id |-> id, rotation |-> 0, priority |-> priority]

TILE_VARIANTS ==
  (0 :> Variant("full", 1)) @@ (255 :> Variant("corners", 2))
  @@ (1 :> Variant("n", 3)) @@ (2 :> Variant("e", 3))
  @@ (4 :> Variant("s", 3)) @@ (8 :> Variant("w", 3))
  @@ (16 :> Variant("nw", 4)) @@ (32 :> Variant("ne", 4))
  @@ (64 :> Variant("se", 4)) @@ (128 :> Variant("sw", 4))
  @@ (14 :> Variant("t_down", 5)) @@ (13 :> Variant("t_right", 5))
  @@ (11 :> Variant("t_up", 5)) @@ (7 :> Variant("t_left", 5))
  @@ (5 :> Variant("edge_h", 6)) @@ (10 :> Variant("edge_v", 6))
  @@ (12 :> Variant("corner_ne", 7)) @@ (6 :> Variant("corner_nw", 7))
  @@ (3 :> Variant("corner_se", 7)) @@ (9 :> Variant("corner_sw", 7))
  @@ (15 :> Variant("single", 8))

\* the neighbour table of calculateTileMask: dx, dy, bit
MaskNeighbors ==
  << <<0, 0 - 1, 0>>, <<1, 0 - 1, 1>>, <<1, 0, 2>>, <<1, 1, 3>>,
     <<0, 1, 4>>, <<0 - 1, 1, 5>>, <<0 - 1, 0, 6>>, <<0 - 1, 0 - 1, 7>> >>

\* the contribution of neighbour i to the mask: 1 << bit, or 0
MaskBit(tiles, localX, localY, i) ==
  LET nx == localX + MaskNeighbors[i][1]
      ny == localY + MaskNeighbors[i][2]
      bit == MaskNeighbors[i][3]
      hit == /\ nx >= 0 /\ nx < CHUNK_SIZE
             /\ ny >= 0 /\ ny < CHUNK_SIZE
             /\ canTransition(tiles[localX][localY].biome, tiles[nx][ny].biome)
  IN  IF hit THEN 2 ^ bit ELSE 0

\* the mask of the four side neighbours alone
calculateTileMaskSides(tiles, localX, localY) ==
  MaskBit(tiles, localX, localY, 1) + MaskBit(tiles, localX, localY, 3)
  + MaskBit(tiles, localX, localY, 5) + MaskBit(tiles, localX, localY, 7)

calculateTileMask(tiles, localX, localY) ==
  MaskBit(tiles, localX, localY, 1) + MaskBit(tiles, localX, localY, 2)
  + MaskBit(tiles, localX, localY, 3) + MaskBit(tiles, localX, localY, 4)
  + MaskBit(tiles, localX, localY, 5) + MaskBit(tiles, localX, localY, 6)
  + MaskBit(tiles, localX, localY, 7) + MaskBit(tiles, localX, localY, 8)

getVariantFromMask(mask) ==
  IF mask \in DOMAIN TILE_VARIANTS THEN TILE_VARIANTS[mask]
  ELSE IF mask = 255 THEN TILE_VARIANTS[255]
  ELSE TILE_VARIANTS[0]

\* the autotiling pass without the structure test
AutotiledTileAll(tiles, x, y) ==
  Bind(calculateTileMask(tiles, x, y), LAMBDA mask :
    [tiles[x][y] EXCEPT !.tileVariant = Some(getVariantFromMask(mask)),
                        !.tileMask = Some(mask)])

\* the tile at (x, y) after the autotiling pass
AutotiledTile(tiles, x, y) ==
  IF tiles[x][y].structure # Null
  THEN [tiles[x][y] EXCEPT !.tileVariant = None]
  ELSE Bind(calculateTileMask(tiles, x, y), LAMBDA mask :
         [tiles[x][y] EXCEPT !.tileVariant = Some(getVariantFromMask(mask)),
                             !.tileMask = Some(mask)])

applyChunkAutotiling(tiles) ==
  LET R == 0..(CHUNK_SIZE - 1)
  IN  Eager([x \in R |-> Eager([y \in R |-> AutotiledTile(tiles, x, y)])])

\* ------------------------------------------------------------------------
\* Chunk generation (chunk.js)
\* ------------------------------------------------------------------------

\* the seeds of the three streams of generateChunk: the grid cell's
\* (gridRng), the template's (templateSeed) and the tile loop's (chunkRng)
GridSeed(seed, gridX, gridY) == seed + (gridX * 918273) + (gridY * 192837)

TemplateSeed(seed, cx, cy) == seed + (cx * 123456) + (cy * 789012)

ChunkRngSeed(seed, cx, cy) == seed + (cx * 374829) + (cy * 928374)

\* new Tile(x, y); tileMask and tileVariant are not set by the constructor
NewTile(x, y) ==
  [x |-> x, y |-> y, elevation |-> 50, biome |-> "grass",
   temperature |-> 50, humidity |-> 50,
   structure |-> Null, object |-> Null, roadType |-> Null,
   tileMask |-> None, tileVariant |-> None]

\* the tile after the biome pass: noise samples and classification
BiomeTile(worldX, worldY, seed) ==
  Bind3(ElevationAt(seed, worldX, worldY), TemperatureAt(seed, worldX, worldY),
        HumidityAt(seed, worldX, worldY),
        LAMBDA elevation, temperature, humidity :
          [NewTile(worldX, worldY) EXCEPT
             !.elevation = elevation, !.temperature = temperature,
             !.humidity = humidity,
             !.biome = classifyBiome(elevation, temperature, humidity)])

\* the tile after the structure overlay
StructureTile(t0, x, y, structureType, rotatedTemplate) ==
  Bind2(Len(rotatedTemplate), (CHUNK_SIZE - Len(rotatedTemplate)) \div 2,
        LAMBDA size, start :
          IF /\ structureType # Null
             /\ rotatedTemplate # None
             /\ x - start >= 0 /\ y - start >= 0
             /\ x - start < size /\ y - start < size
             /\ rotatedTemplate[(y - start) + 1][(x - start) + 1] # "."
             /\ canPlaceStructure(structureType, t0.biome, t0.biome = "water")
          THEN [t0 EXCEPT !.structure = structureType,
                          !.biome = structureType,
                          !.elevation = IF structureType = "village"
                                        THEN 50 ELSE t0.elevation]
          ELSE t0)

\* the tile after the scatter pass
ScatterTile(t1, worldX, worldY, seed) ==
  IF t1.structure = Null /\ t1.biome # "water" /\ t1.roadType = Null
  THEN [t1 EXCEPT !.object =
          getScatterType(t1, ScatterDensityAt(seed, worldX, worldY))]
  ELSE t1

\* the tile loop with world positions measured from the chunk's distance to
\* the origin: wrong on negative chunk coordinates
BuildTileMirrored(cx, cy, x, y, seed, structureType, rotatedTemplate) ==
  Bind2(((IF cx < 0 THEN 0 - cx ELSE cx) * CHUNK_SIZE) + x,
        ((IF cy < 0 THEN 0 - cy ELSE cy) * CHUNK_SIZE) + y,
        LAMBDA worldX, worldY :
    Bind(BiomeTile(worldX, worldY, seed), LAMBDA t0 :
      Bind(StructureTile(t0, x, y, structureType, rotatedTemplate), LAMBDA t1 :
        ScatterTile(t1, worldX, worldY, seed))))

\* the body of the tile loop for local position (x, y), before autotiling
BuildTile(cx, cy, x, y, seed, structureType, rotatedTemplate) ==
  Bind2((cx * CHUNK_SIZE) + x, (cy * CHUNK_SIZE) + y, LAMBDA worldX, worldY :
    Bind(BiomeTile(worldX, worldY, seed), LAMBDA t0 :
      Bind(StructureTile(t0, x, y, structureType, rotatedTemplate), LAMBDA t1 :
        ScatterTile(t1, worldX, worldY, seed))))

\* the tile grid of chunk (cx, cy) for a resolved structure type
BuildChunk(cx, cy, seed, structureType) ==
  Bind(IF structureType # Null
       THEN getRandomizedTemplate(structureType, TemplateSeed(seed, cx, cy))
       ELSE None,
       LAMBDA templateData :
    Bind(IF templateData # None THEN templateData[1].template ELSE None,
         LAMBDA rotatedTemplate :
      Bind(Eager([x \in 0..(CHUNK_SIZE - 1) |-> Eager(
                   [y \in 0..(CHUNK_SIZE - 1) |->
                      BuildTile(cx, cy, x, y, seed, structureType,
                                rotatedTemplate)])]),
           LAMBDA tiles : applyChunkAutotiling(tiles))))

\* the tile grids of the window, computed once
ChunkTable ==
  LET D == Seeds \X CallXs \X ChunkYs \X (StructureTypes \cup {Null})
  IN  Eager([a \in D |-> BuildChunk(a[2], a[3], a[1], a[4])])

\* the draws of the grid-cell stream: candidate offsets and the roll
GridDraws(seed, gridX, gridY) ==
  LET gridSeed == GridSeed(seed, gridX, gridY)
  IN  [candidateOffX |-> FloorDraw(createSeededRandom(gridSeed, 1), STRUCTURE_SPACING),
       candidateOffY |-> FloorDraw(createSeededRandom(gridSeed, 2), STRUCTURE_SPACING),
       roll |-> createSeededRandom(gridSeed, 3)]

FloorDiv(a, b) == a \div b

GridTable ==
  LET D == Seeds \X {FloorDiv(cx, STRUCTURE_SPACING) : cx \in CallXs}
                 \X {FloorDiv(cy, STRUCTURE_SPACING) : cy \in ChunkYs}
  IN  Eager([a \in D |-> GridDraws(a[1], a[2], a[3])])

\* the roll of the grid cell taken by every chunk of the cell
RolledTypeAnyChunk(cx, cy, seed) ==
  Bind(GridTable[<<seed, FloorDiv(cx, STRUCTURE_SPACING),
                   FloorDiv(cy, STRUCTURE_SPACING)>>].roll,
       LAMBDA roll :
         IF DrawBelowPercent(roll, STRUCTURE_SPAWN_CHANCE_VILLAGE) THEN "village"
         ELSE IF DrawBelowPercent(roll, STRUCTURE_SPAWN_CHANCE_DUNGEON) THEN "dungeon"
         ELSE Null)

\* structure type rolled by chunk (cx, cy) itself, or Null
RolledType(cx, cy, seed) ==
  Bind2(FloorDiv(cx, STRUCTURE_SPACING), FloorDiv(cy, STRUCTURE_SPACING),
        LAMBDA gridX, gridY :
    Bind(GridTable[<<seed, gridX, gridY>>], LAMBDA d :
      IF ~(/\ cx = (gridX * STRUCTURE_SPACING) + d.candidateOffX
           /\ cy = (gridY * STRUCTURE_SPACING) + d.candidateOffY)
      THEN Null
      ELSE IF DrawBelowPercent(d.roll, STRUCTURE_SPAWN_CHANCE_VILLAGE) THEN "village"
      ELSE IF DrawBelowPercent(d.roll, STRUCTURE_SPAWN_CHANCE_DUNGEON) THEN "dungeon"
      ELSE Null))

\* registry[key] = record on an insertion-ordered object
RegistryPut(registry0, rec0) ==
  Bind2(registry0, rec0, LAMBDA registry, rec :
    IF \E i \in 1..Len(registry) : registry[i].key = rec.key
    THEN [i \in 1..Len(registry) |->
            IF registry[i].key = rec.key THEN rec ELSE registry[i]]
    ELSE Append(registry, rec))

\* delete registry[key]
RegistryDelete(registry, key) == SelectSeq(registry, LAMBDA r : r.key # key)

\* dx < 1 && dy < 1
InRangeStrict(cx, cy, data) == Abs(cx - data.cx) < 1 /\ Abs(cy - data.cy) < 1

\* dx <= 2 && dy <= 2
InRangeTwo(cx, cy, data) == Abs(cx - data.cx) <= 2 /\ Abs(cy - data.cy) <= 2

\* dx <= 1 && dy <= 1
InRange(cx, cy, data) == Abs(cx - data.cx) <= 1 /\ Abs(cy - data.cy) <= 1

\* the loop without its break: the last record in range wins
ScanRegistryLast(registry, i, cx, cy) ==
  LET near == {j \in i..Len(registry) : InRange(cx, cy, registry[j])}
  IN  IF near = {} THEN None
      ELSE Some(registry[CHOOSE j \in near : \A n \in near : n <= j])

RECURSIVE ScanRegistry(_, _, _, _)
\* the for-in loop over the registry: the first record in range, from index i
ScanRegistry(registry, i, cx, cy) ==
  IF i > Len(registry) THEN None
  ELSE IF InRange(cx, cy, registry[i]) THEN Some(registry[i])
  ELSE ScanRegistry(registry, i + 1, cx, cy)

\* the result when a record in range overrides the chunk's own roll
GeneratedChunkAdoptAlways(cx, cy, seed, rolled, registry1, nearbyStructure) ==
  IF nearbyStructure # None
  THEN [chunk |-> ChunkTable[<<seed, cx, cy, nearbyStructure[1].type>>],
        registry |-> registry1,
        structureType |-> nearbyStructure[1].type,
        structureChunk |-> Some(getChunkKey(nearbyStructure[1].cx,
                                            nearbyStructure[1].cy))]
  ELSE [chunk |-> ChunkTable[<<seed, cx, cy, rolled>>],
        registry |-> registry1,
        structureType |-> rolled,
        structureChunk |-> None]

\* the result of generateChunk once the registry loop has run
GeneratedChunk(cx, cy, seed, rolled, registry1, nearbyStructure) ==
  IF nearbyStructure # None /\ rolled = Null
  THEN [chunk |-> ChunkTable[<<seed, cx, cy, nearbyStructure[1].type>>],
        registry |-> registry1,
        structureType |-> nearbyStructure[1].type,
        structureChunk |-> Some(getChunkKey(nearbyStructure[1].cx,
                                            nearbyStructure[1].cy))]
  ELSE [chunk |-> ChunkTable[<<seed, cx, cy, rolled>>],
        registry |-> registry1,
        structureType |-> rolled,
        structureChunk |-> None]

generateChunk(cx, cy, seed, registry) ==
  Bind(RolledType(cx, cy, seed), LAMBDA rolled :
    Bind(IF rolled # Null
         THEN RegistryPut(registry,
                [key |-> getStructureKey(cx, cy), type |-> rolled,
                 cx |-> cx, cy |-> cy])
         ELSE registry,
         LAMBDA registry1 :
      Bind(ScanRegistry(registry1, 1, cx, cy), LAMBDA nearbyStructure :
        GeneratedChunk(cx, cy, seed, rolled, registry1, nearbyStructure))))

\* ------------------------------------------------------------------------
\* ChunkCache (chunk.js): the methods as functions of the cache contents
\* ------------------------------------------------------------------------

\* getChunk without the lookup: every call generates
getChunkUncached(chunks, registry, cx, cy, seed) ==
  Bind2(getChunkKey(cx, cy), generateChunk(cx, cy, seed, registry),
        LAMBDA key, g :
          [chunks |-> (key :> g.chunk) @@ chunks,
           registry |-> g.registry,
           ret |-> g.chunk,
           generated |-> TRUE,
           structureType |-> g.structureType,
           structureChunk |-> g.structureChunk])

\* the cache after a miss: the generated grid stored under key
Generated(chunks, key, g) ==
  [chunks |-> chunks @@ (key :> g.chunk),
   registry |-> g.registry,
   ret |-> g.chunk,
   generated |-> TRUE,
   structureType |-> g.structureType,
   structureChunk |-> g.structureChunk]

\* getChunk that, on a miss, also generates every cached chunk again
\* against the registry the miss leaves
getChunkRefreshing(chunks, registry, cx, cy, seed) ==
  Bind(getChunkKey(cx, cy), LAMBDA key :
    IF key \notin DOMAIN chunks
    THEN Bind(generateChunk(cx, cy, seed, registry), LAMBDA g :
           Generated([k \in DOMAIN chunks |->
                        generateChunk(ParseKey(k)[1], ParseKey(k)[2], seed,
                                      g.registry).chunk],
                     key, g))
    ELSE [chunks |-> chunks,
          registry |-> registry,
          ret |-> chunks[key],
          generated |-> FALSE,
          structureType |-> Null,
          structureChunk |-> None])

\* getChunk: the cache after the call, the grid returned, whether
\* generateChunk ran, and the structure locals of that run
getChunk(chunks, registry, cx, cy, seed) ==
  Bind(getChunkKey(cx, cy), LAMBDA key :
    IF key \notin DOMAIN chunks
    THEN Bind(generateChunk(cx, cy, seed, registry), LAMBDA g :
           Generated(chunks, key, g))
    ELSE [chunks |-> chunks,
          registry |-> registry,
          ret |-> chunks[key],
          generated |-> FALSE,
          structureType |-> Null,
          structureChunk |-> None])

Restrict(f, S) == [k \in S |-> f[k]]

unloadChunk(chunks, registry, cx, cy) ==
  Bind(getChunkKey(cx, cy), LAMBDA key :
    [chunks |-> Restrict(chunks, DOMAIN chunks \ {key}),
     registry |-> RegistryDelete(registry, key)])

\* dx > keepDistance && dy > keepDistance
IsDistantBoth(key, centerCX, centerCY, keepDistance) ==
  Bind(ParseKey(key), LAMBDA c :
    Abs(c[1] - centerCX) > keepDistance /\ Abs(c[2] - centerCY) > keepDistance)

\* dx > keepDistance || dy > keepDistance, on the parsed key
IsDistant(key, centerCX, centerCY, keepDistance) ==
  Bind(ParseKey(key), LAMBDA c :
    Abs(c[1] - centerCX) > keepDistance \/ Abs(c[2] - centerCY) > keepDistance)

unloadDistantChunks(chunks, registry, centerCX, centerCY, keepDistance) ==
  LET toDelete == {key \in DOMAIN chunks :
                     IsDistant(key, centerCX, centerCY, keepDistance)}
  IN  [chunks |-> Restrict(chunks, DOMAIN chunks \ toDelete),
       registry |-> registry]

\* clear() that resets the registry alone
clearRegistryOnly(chunks, registry) == [chunks |-> chunks, registry |-> <<>>]

\* clear() that resets the chunk map alone
clearChunksOnly(chunks, registry) == [chunks |-> <<>>, registry |-> registry]

clear(chunks, registry) == [chunks |-> <<>>, registry |-> <<>>]

\* ------------------------------------------------------------------------
\* State
\* ------------------------------------------------------------------------

VARIABLES
  worldSeed,   \* WorldGenerator.worldSeed
  chunks,      \* ChunkCache.chunks: key -> tile grid
  registry,    \* ChunkCache.registry: records in insertion order
  genLocals,   \* per cached key: structureType / structureChunk of its run
  genCount,    \* per key: runs of generateChunk since the key was last removed
  lastOp,      \* the last operation called, and how it ran
  ret,         \* the grid returned by the last getChunk
  firstGen,    \* the first generateChunk run since construction (SpecReplay)
  order,       \* keys in the order they were generated (SpecOrder)
  roadPc, roadCenter, nodeCount, roadNodes, roadEdges,  \* RoadGraph
  callArgs, callOutA, callOutB,  \* two direct generateChunk calls
  tileMap,     \* the grid handed to rasterizeroads
  rasterLog,   \* the rasterizeroads calls made on tileMap
  fnArgs,      \* the arguments of a call of a pure function
  fnOut        \* the value the call returned, once it has returned

cacheVars == <<worldSeed, chunks, registry, genLocals, genCount, lastOp, ret>>
histVars == <<firstGen, order>>
roadVars == <<roadPc, roadCenter, nodeCount, roadNodes, roadEdges>>
callVars == <<callArgs, callOutA, callOutB>>
rasterVars == <<tileMap, rasterLog>>
fnVars == <<fnArgs, fnOut>>
vars == <<cacheVars, histVars, roadVars, callVars, rasterVars, fnVars>>

Keys == {getChunkKey(cx, cy) : cx \in ChunkXs, cy \in ChunkYs}

\* generated: generateChunk ran; afterClear: the call before was clear()
Op(op, generated, afterClear) ==
  [op |-> op, generated |-> generated, afterClear |-> afterClear]

InitCache ==
  /\ worldSeed = 12345
  /\ chunks = <<>>
  /\ registry = <<>>
  /\ genLocals = <<>>
  /\ genCount = [k \in Keys |-> 0]
  /\ lastOp = Op("new", FALSE, FALSE)
  /\ ret = None
  /\ firstGen = None
  /\ order = <<>>

InitRoad ==
  /\ roadPc = "new"
  /\ roadCenter = <<0, 0>>
  /\ nodeCount = 0
  /\ roadNodes = <<>>
  /\ roadEdges = <<>>

InitCall ==
  /\ callArgs = [cx |-> 0, cy |-> 0, seed |-> 12345, regA |-> <<>>, regB |-> <<>>]
  /\ callOutA = None
  /\ callOutB = None

InitRaster ==
  /\ tileMap = None
  /\ rasterLog = <<>>

\* no call of a pure function is under way
InitFn ==
  /\ fnArgs = None
  /\ fnOut = None

Init == InitCache /\ InitRoad /\ InitCall /\ InitRaster /\ InitFn

\* ------------------------------------------------------------------------
\* ChunkCache and WorldGenerator operations
\* ------------------------------------------------------------------------

\* cache.getChunk(cx, cy, worldSeed, noiseLayers)
GetChunkCall(cx, cy) ==
  \E key \in {getChunkKey(cx, cy)},
     r \in {getChunk(chunks, registry, cx, cy, worldSeed)} :
      /\ chunks' = r.chunks
      /\ registry' = r.registry
      /\ ret' = Some(r.ret)
      /\ genLocals' = IF r.generated
                      THEN (key :> [structureType |-> r.structureType,
                                    structureChunk |-> r.structureChunk])
                           @@ genLocals
                      ELSE genLocals
      /\ genCount' = IF r.generated
                     THEN [genCount EXCEPT ![key] = @ + 1]
                     ELSE genCount
      /\ lastOp' = Op("getChunk", r.generated, lastOp.op = "clear")
      /\ UNCHANGED <<worldSeed, roadVars, callVars, rasterVars, fnVars>>

GetChunk(cx, cy) == GetChunkCall(cx, cy) /\ UNCHANGED histVars

\* history of the keys that left the chunk map
Forget(newChunks) ==
  /\ genLocals' = Restrict(genLocals, DOMAIN newChunks)
  /\ genCount' = [k \in Keys |-> IF k \in DOMAIN newChunks THEN genCount[k] ELSE 0]

UnloadChunk(cx, cy) ==
  \E r \in {unloadChunk(chunks, registry, cx, cy)} :
      /\ chunks' = r.chunks
      /\ registry' = r.registry
      /\ Forget(r.chunks)
      /\ ret' = None
      /\ lastOp' = Op("unloadChunk", FALSE, FALSE)
      /\ UNCHANGED <<worldSeed, histVars, roadVars, callVars, rasterVars, fnVars>>

UnloadDistantChunks(centerCX, centerCY, keepDistance) ==
  \E r \in {unloadDistantChunks(chunks, registry, centerCX, centerCY,
                                  keepDistance)} :
      /\ chunks' = r.chunks
      /\ registry' = r.registry
      /\ Forget(r.chunks)
      /\ ret' = None
      /\ lastOp' = Op("unloadDistantChunks", FALSE, FALSE)
      /\ UNCHANGED <<worldSeed, histVars, roadVars, callVars, rasterVars, fnVars>>

Clear ==
  \E r \in {clear(chunks, registry)} :
      /\ chunks' = r.chunks
      /\ registry' = r.registry
      /\ Forget(r.chunks)
      /\ ret' = None
      /\ lastOp' = Op("clear", FALSE, FALSE)
      /\ UNCHANGED <<worldSeed, histVars, roadVars, callVars, rasterVars, fnVars>>

\* WorldGenerator.regenerateWorld(newSeed)
RegenerateWorldCall(newSeed) ==
  \E r \in {clear(chunks, registry)} :
      /\ worldSeed' = newSeed
      /\ chunks' = r.chunks
      /\ registry' = r.registry
      /\ Forget(r.chunks)
      /\ ret' = None
      /\ lastOp' = Op("regenerateWorld", FALSE, FALSE)
      /\ UNCHANGED <<roadVars, callVars, rasterVars, fnVars>>

RegenerateWorld(newSeed) == RegenerateWorldCall(newSeed) /\ UNCHANGED histVars

Next ==
  \/ \E cx \in ChunkXs, cy \in ChunkYs : GetChunk(cx, cy)
  \/ \E cx \in ChunkXs, cy \in ChunkYs : UnloadChunk(cx, cy)
  \/ \E cx \in ChunkXs, cy \in ChunkYs, k \in Keeps : UnloadDistantChunks(cx, cy, k)
  \/ Clear
  \/ \E s \in Seeds : RegenerateWorld(s)

Spec == Init /\ [][Next]_vars

\* ------------------------------------------------------------------------
\* The same operations, remembering the first generation
\* ------------------------------------------------------------------------

GetChunkRecorded(cx, cy) ==
  /\ GetChunkCall(cx, cy)
  /\ firstGen' = IF firstGen = None
                 THEN Some([cx |-> cx, cy |-> cy, seed |-> worldSeed,
                            grid |-> ret'[1]])
                 ELSE firstGen
  /\ UNCHANGED order

NextReplay ==
  \/ \E cx \in ChunkXs, cy \in ChunkYs : GetChunkRecorded(cx, cy)
  \/ \E cx \in ChunkXs, cy \in ChunkYs : UnloadChunk(cx, cy)
  \/ \E cx \in ChunkXs, cy \in ChunkYs, k \in Keeps : UnloadDistantChunks(cx, cy, k)
  \/ Clear
  \/ \E s \in Seeds : RegenerateWorld(s)

SpecReplay == Init /\ [][NextReplay]_vars

\* ------------------------------------------------------------------------
\* getChunk calls on a fresh cache, remembering the order of generation
\* ------------------------------------------------------------------------

GetChunkOrdered(cx, cy) ==
  /\ GetChunkCall(cx, cy)
  /\ order' = IF lastOp'.generated THEN Append(order, getChunkKey(cx, cy))
              ELSE order
  /\ UNCHANGED firstGen

\* a new seed leaves the cache as the constructor does
RegenerateWorldFresh(newSeed) ==
  /\ RegenerateWorldCall(newSeed)
  /\ order' = <<>>
  /\ UNCHANGED firstGen

NextOrder ==
  \/ \E cx \in ChunkXs, cy \in ChunkYs : GetChunkOrdered(cx, cy)
  \/ \E s \in Seeds : RegenerateWorldFresh(s)

SpecOrder == Init /\ [][NextOrder]_vars

\* ------------------------------------------------------------------------
\* Two direct calls of generateChunk on registries given by the caller
\* ------------------------------------------------------------------------

\* the records generateChunk inserts for a seed
RecordsOf(seed) ==
  {[key |-> getStructureKey(c[1], c[2]), type |-> RolledType(c[1], c[2], seed),
    cx |-> c[1], cy |-> c[2]] :
     c \in {d \in CallXs \X ChunkYs : RolledType(d[1], d[2], seed) # Null}}

\* the registries the cache can hold: any records in any insertion order
RegistriesOf(seed) ==
  LET R == RecordsOf(seed)
  IN  {q \in UNION {[1..n -> R] : n \in 0..Cardinality(R)} :
         \A i, j \in DOMAIN q : q[i] = q[j] => i = j}

InitGen ==
  /\ InitCache
  /\ InitRoad
  /\ InitRaster
  /\ InitFn
  /\ \E s \in Seeds :
       \E a \in RegistriesOf(s), b \in RegistriesOf(s) :
         \E x \in CallXs, y \in ChunkYs :
           callArgs = [cx |-> x, cy |-> y, seed |-> s, regA |-> a, regB |-> b]
  /\ callOutA = None
  /\ callOutB = None

\* generateChunk(cx, cy, seed, noiseLayers, regA)
CallA ==
  /\ callOutA = None
  /\ callOutA' = Some(generateChunk(callArgs.cx, callArgs.cy, callArgs.seed,
                                    callArgs.regA))
  /\ UNCHANGED <<callArgs, callOutB, cacheVars, histVars, roadVars, rasterVars, fnVars>>

\* generateChunk(cx, cy, seed, noiseLayers, regB)
CallB ==
  /\ callOutB = None
  /\ callOutB' = Some(generateChunk(callArgs.cx, callArgs.cy, callArgs.seed,
                                    callArgs.regB))
  /\ UNCHANGED <<callArgs, callOutA, cacheVars, histVars, roadVars, rasterVars, fnVars>>

NextGen == CallA \/ CallB

SpecGen == InitGen /\ [][NextGen]_vars

\* ------------------------------------------------------------------------
\* RoadGraph (road.js); coordinates before Math.floor are in hundredths
\* ------------------------------------------------------------------------

\* largest value of Math.floor(rng() * 6) that is drawn
MaxCountDraw == 0

\* centers the constructor is called with
RoadCenters == {<<0, 0>>, <<3, 3>>}

\* values of (Math.cos(angle) * distance, Math.sin(angle) * distance)
RoadOffsets == {<<650, 0 - 310>>, <<0 - 425, 1137>>}

\* new RoadNode(x, y): Math.floor of both coordinates
RoadNode(x, y) == [x |-> FloorDiv(x, 100), y |-> FloorDiv(y, 100)]

\* new RoadEdge(from, to); a node object is named by its index in nodes
RoadEdge(from, to) == [from |-> from, to |-> to]

\* the constructor with nodeCount = 6 + Math.floor(rng() * 6)
RoadNewOneMore(centerX, centerY, countDraw) ==
  /\ roadPc \in {"new", "done"}
  /\ roadCenter' = <<centerX, centerY>>
  /\ roadNodes' = <<RoadNode(centerX * 100, centerY * 100)>>
  /\ roadEdges' = <<>>
  /\ nodeCount' = 6 + countDraw
  /\ roadPc' = "loop"
  /\ UNCHANGED <<cacheVars, histVars, callVars, rasterVars, fnVars>>

\* the constructor and generateGraph up to the loop
RoadNew(centerX, centerY, countDraw) ==
  /\ roadPc \in {"new", "done"}
  /\ roadCenter' = <<centerX, centerY>>
  /\ roadNodes' = <<RoadNode(centerX * 100, centerY * 100)>>
  /\ roadEdges' = <<>>
  /\ nodeCount' = 5 + countDraw
  /\ roadPc' = "loop"
  /\ UNCHANGED <<cacheVars, histVars, callVars, rasterVars, fnVars>>

\* one iteration of the loop of generateGraph, i = nodes.length
RoadAddNode(offset, parentIdx) ==
  \E nodes1 \in {Append(roadNodes,
                           RoadNode((roadCenter[1] * 100) + offset[1],
                                    (roadCenter[2] * 100) + offset[2]))} :
      /\ roadPc = "loop"
      /\ Len(roadNodes) < nodeCount
      /\ parentIdx < Len(nodes1)
      /\ roadNodes' = nodes1
      /\ roadEdges' = Append(roadEdges, RoadEdge(parentIdx, Len(nodes1) - 1))
      /\ roadPc' = IF Len(nodes1) < nodeCount THEN "loop" ELSE "done"
      /\ UNCHANGED <<roadCenter, nodeCount, cacheVars, histVars, callVars, rasterVars, fnVars>>

NextRoad ==
  \/ \E c \in RoadCenters, d \in 0..MaxCountDraw : RoadNew(c[1], c[2], d)
  \/ \E o \in RoadOffsets, p \in 0..(4 + MaxCountDraw) : RoadAddNode(o, p)

SpecRoad == Init /\ [][NextRoad]_vars

\* ------------------------------------------------------------------------
\* Properties of the chunk cache
\* ------------------------------------------------------------------------

Window == ChunkXs \X ChunkYs

\* the cache key of every chunk of the window
KeyOf == Eager([c \in Window |-> getChunkKey(c[1], c[2])])

LocalRange == 0..(CHUNK_SIZE - 1)

\* Chebyshev distance between two chunk coordinates
Chebyshev(ax, ay, bx, by) ==
  LET dx == Abs(ax - bx)
      dy == Abs(ay - by)
  IN  IF dx > dy THEN dx ELSE dy

\* the registry holds a record under the key of chunk (cx, cy)
HasOwnRecord(reg, cx, cy) ==
  \E i \in 1..Len(reg) : reg[i].key = getStructureKey(cx, cy)

\* the structure types that occur on the tiles of a grid
StructuresOf(grid) ==
  {grid[x][y].structure : x \in LocalRange, y \in LocalRange} \ {Null}

\* indexes of the records within distance 1 of chunk (cx, cy)
NearIndexes(reg, cx, cy) ==
  {i \in 1..Len(reg) : Chebyshev(cx, cy, reg[i].cx, reg[i].cy) <= 1}

MinOf(S) == CHOOSE m \in S : \A n \in S : m <= n

C4_EvictionDropsRecords ==
  [][\A c \in Window, k \in Keeps :
       UnloadDistantChunks(c[1], c[2], k)
       => \A i \in 1..Len(registry') :
            /\ Chebyshev(registry'[i].cx, registry'[i].cy, c[1], c[2]) <= k
            /\ registry'[i].key \in DOMAIN chunks']_vars

C6_Memoization ==
  [][/\ \A c \in Window :
          LET key == KeyOf[c]
          IN  (key \in DOMAIN chunks /\ lastOp'.op = "getChunk"
                 /\ GetChunk(c[1], c[2]))
              => /\ chunks' = chunks
                 /\ registry' = registry
                 /\ ret' = Some(chunks[key])
                 /\ ~lastOp'.generated
     /\ \A key \in DOMAIN chunks \cap DOMAIN chunks' : chunks'[key] = chunks[key]
     /\ \A key \in Keys :
          genCount'[key] = IF key \in DOMAIN chunks' THEN 1 ELSE 0]_vars

\* a getChunk call answered from the cache
C6_Witness ==
  /\ lastOp.op = "getChunk" /\ ~lastOp.generated
  /\ \E key \in DOMAIN chunks : ret = Some(chunks[key]) /\ genCount[key] = 1
  /\ registry # <<>>

\* C8 as stated: any two distinct registry records have origin chunks at
\* Chebyshev distance at least STRUCTURE_SPACING - 1.
C8_StructureSpacing ==
  \A i, j \in 1..Len(registry) :
    i # j => Chebyshev(registry[i].cx, registry[i].cy,
                       registry[j].cx, registry[j].cy) >= STRUCTURE_SPACING - 1

\* Math.floor(c / STRUCTURE_SPACING), written out for either sign
CellOf(c) ==
  IF c >= 0 THEN c \div STRUCTURE_SPACING
  ELSE 0 - (((0 - c) + (STRUCTURE_SPACING - 1)) \div STRUCTURE_SPACING)

\* the draws of the grid cells of the window
CellDraws ==
  LET D == Seeds \X {CellOf(cx) : cx \in ChunkXs} \X {CellOf(cy) : cy \in ChunkYs}
  IN  Eager([a \in D |-> GridDraws(a[1], a[2], a[3])])

\* chunk (cx, cy) is the candidate chunk of its grid cell
IsCellCandidate(cx, cy, seed) ==
  LET d == CellDraws[<<seed, CellOf(cx), CellOf(cy)>>]
  IN  /\ cx = (CellOf(cx) * STRUCTURE_SPACING) + d.candidateOffX
      /\ cy = (CellOf(cy) * STRUCTURE_SPACING) + d.candidateOffY

\* the roll of the cell of chunk (cx, cy) reaches the dungeon threshold
RollAtLeastDungeon(cx, cy, seed) ==
  ~DrawBelowPercent(CellDraws[<<seed, CellOf(cx), CellOf(cy)>>].roll,
                    STRUCTURE_SPAWN_CHANCE_DUNGEON)

\* C9: every registry record is keyed by its own coordinates and lies at the
\* candidate chunk of its grid cell, also for negative coordinates; no two
\* records share a grid cell; generating a chunk that is not its cell's
\* candidate, or whose roll reaches the dungeon threshold, inserts no record.
C9_OneCandidatePerCell ==
  [][/\ \A i \in 1..Len(registry') :
          /\ registry'[i].key = getStructureKey(registry'[i].cx, registry'[i].cy)
          /\ IsCellCandidate(registry'[i].cx, registry'[i].cy, worldSeed')
     /\ \A i, j \in 1..Len(registry') :
          (/\ CellOf(registry'[i].cx) = CellOf(registry'[j].cx)
           /\ CellOf(registry'[i].cy) = CellOf(registry'[j].cy)) => i = j
     /\ \A c \in Window :
          (/\ \/ ~IsCellCandidate(c[1], c[2], worldSeed)
              \/ RollAtLeastDungeon(c[1], c[2], worldSeed)
           /\ lastOp'.op = "getChunk"
           /\ GetChunk(c[1], c[2]))
          => registry' = registry]_vars

\* records in two grid cells, one with negative coordinates, and every chunk
\* of the window generated
C9_Witness ==
  /\ Len(registry) = 2
  /\ \E i \in 1..2 : registry[i].cx < 0
  /\ DOMAIN chunks = Keys

\* C7: clear() leaves chunk map and registry empty, and when chunk c was the
\* first chunk generated since construction, with seed s, getChunk(c) called
\* with seed s right after a clear() generates and returns a grid equal, field
\* for field, to that first grid.
C7_ReproducibleAfterClear ==
  [][/\ Clear => (chunks' = <<>> /\ registry' = <<>>)
     /\ \A c \in Window :
          (/\ lastOp.op = "clear"
           /\ firstGen # None
           /\ firstGen[1].cx = c[1] /\ firstGen[1].cy = c[2]
           /\ firstGen[1].seed = worldSeed
           /\ GetChunkRecorded(c[1], c[2]))
          => /\ lastOp'.generated
             /\ ret' = Some(firstGen[1].grid)]_vars

\* the first chunk is generated again right after clear(), under a seed set
\* by regenerateWorld, and the registry is empty again although the chunk
\* lies next to an origin
C7_Witness ==
  /\ lastOp.op = "getChunk" /\ lastOp.afterClear /\ lastOp.generated
  /\ firstGen # None
  /\ firstGen[1].seed = worldSeed /\ worldSeed # 12345
  /\ ret = Some(firstGen[1].grid)
  /\ DOMAIN chunks = {getChunkKey(firstGen[1].cx, firstGen[1].cy)}
  /\ registry = <<>>
  /\ \E c \in Window :
       /\ RolledType(c[1], c[2], worldSeed) # Null
       /\ Chebyshev(c[1], c[2], firstGen[1].cx, firstGen[1].cy) = 1

\* the type rolled by the chunk with the given key
RolledByKey(key, seed) ==
  LET c == ParseKey(key) IN RolledType(c[1], c[2], seed)

\* positions before p in the order of generation whose chunk rolled a
\* structure and lies within distance 1 of the chunk at position p
OriginsBefore(p) ==
  {q \in 1..(p - 1) :
     LET c == ParseKey(order[p])
         b == ParseKey(order[q])
     IN  /\ RolledByKey(order[q], worldSeed) # Null
         /\ Chebyshev(c[1], c[2], b[1], b[2]) <= 1}

SameContents(regA, regB) ==
  {regA[i] : i \in DOMAIN regA} = {regB[i] : i \in DOMAIN regB}

\* the records within distance 1 of (cx, cy), in insertion order
NearRecords(reg, cx, cy) ==
  SelectSeq(reg, LAMBDA r : Chebyshev(cx, cy, r.cx, r.cy) <= 1)

BothCalled == callOutA # None /\ callOutB # None

RECURSIVE RoadClosure(_)
\* the node indexes joined to a node of S by edges, in either direction
RoadClosure(S) ==
  LET T == S \cup {roadEdges[i].to : i \in {j \in DOMAIN roadEdges :
                                              roadEdges[j].from \in S}}
              \cup {roadEdges[i].from : i \in {j \in DOMAIN roadEdges :
                                                roadEdges[j].to \in S}}
  IN  IF T = S THEN S ELSE RoadClosure(T)

\* C10 as stated: the finished graph with N nodes has N - 1 edges, every edge
\* joins the node created with it to a different node that existed before,
\* and the graph is connected (hence, with N - 1 edges, acyclic).
C10_RoadGraphIsTree ==
  roadPc = "done"
  => /\ Len(roadEdges) = Len(roadNodes) - 1
     /\ \A i \in DOMAIN roadEdges :
          roadEdges[i].to = i /\ roadEdges[i].from < roadEdges[i].to
     /\ RoadClosure({0}) = 0..(Len(roadNodes) - 1)

\* ------------------------------------------------------------------------
\* RoadGraph for every value of the node count draw
\* ------------------------------------------------------------------------

\* numerators k of rng() = k / 2^32 around the steps of Math.floor(rng() * 6)
CountDrawSamples ==
  {[hi |-> 0, lo |-> 0], [hi |-> 10922, lo |-> 43690], [hi |-> 10922, lo |-> 43691],
   [hi |-> 21845, lo |-> 21846], [hi |-> 32768, lo |-> 0],
   [hi |-> 43690, lo |-> 43691], [hi |-> 54613, lo |-> 21846],
   [hi |-> 65535, lo |-> 65535]}

\* the constructor called with a generator whose first value is k / 2^32
RoadNewDrawn(k) == RoadNew(0, 0, FloorDraw(k, 6))

\* an iteration whose parent draw is the center or the new node itself
RoadAddNodeEnds(selfLoop) ==
  RoadAddNode(<<650, 0 - 310>>, IF selfLoop THEN Len(roadNodes) ELSE 0)

NextRoadSize ==
  \/ \E k \in CountDrawSamples : RoadNewDrawn(k)
  \/ \E b \in BOOLEAN : RoadAddNodeEnds(b)

SpecRoadSize == Init /\ [][NextRoadSize]_vars

\* C11 as stated: the finished graph has the center node and between 5 and
\* 10 further nodes, i.e. between 6 and 11 nodes.
C11_SixToElevenNodes ==
  roadPc = "done" => Len(roadNodes) \in 6..11

\* C11, amended: nodeCount = 5 + Math.floor(rng() * 6) counts the center
\* node: the loop adds one node and one edge per iteration and stops at
\* nodeCount nodes, so the finished graph has between 5 and 10 nodes, the
\* center and between 4 and 9 further ones.
C11_FiveToTenNodes ==
  /\ Len(roadEdges) = Len(roadNodes) - 1 \/ roadPc = "new"
  /\ roadPc = "loop" => (nodeCount \in 5..10 /\ Len(roadNodes) \in 1..(nodeCount - 1))
  /\ roadPc = "done" => (nodeCount \in 5..10 /\ Len(roadNodes) = nodeCount)

\* a finished graph of the largest size
C11_Witness == roadPc = "done" /\ Len(roadNodes) = 10 /\ Len(roadEdges) = 9

\* ------------------------------------------------------------------------
\* Road rasterization (road.js)
\* ------------------------------------------------------------------------

\* options.x || dflt: an absent or falsy option gives the default
OrDefault(option, falsy, dflt) ==
  IF option = None \/ option = Some(falsy) THEN dflt ELSE option[1]

RECURSIVE LineFrom(_, _, _, _, _)
\* the points drawLineOnGrid hands to its callback from p = (x0, y0) to
\* q = (x1, y1), with d = (dx, dy), s = (sx, sy) and the running error err
LineFrom(p, q, d, s, err) ==
  IF p = q THEN <<p>>
  ELSE Bind(err * 2, LAMBDA e2 :
         Bind([x |-> IF e2 > 0 - d[2] THEN p[1] + s[1] ELSE p[1],
               y |-> IF e2 < d[1] THEN p[2] + s[2] ELSE p[2],
               err |-> (IF e2 > 0 - d[2] THEN err - d[2] ELSE err)
                       + (IF e2 < d[1] THEN d[1] ELSE 0)],
              LAMBDA n : <<p>> \o LineFrom(<<n.x, n.y>>, q, d, s, n.err)))

\* the walk whose loop tests for the end point before the callback
drawLineOnGridOpen(x0, y0, x1, y1) ==
  Bind(LineFrom(<<x0, y0>>, <<x1, y1>>, <<Abs(x1 - x0), Abs(y1 - y0)>>,
                <<IF x0 < x1 THEN 1 ELSE 0 - 1, IF y0 < y1 THEN 1 ELSE 0 - 1>>,
                Abs(x1 - x0) - Abs(y1 - y0)),
       LAMBDA points : SubSeq(points, 1, Len(points) - 1))

\* drawLineOnGrid on integer end points: the sequence of callback calls
drawLineOnGrid(x0, y0, x1, y1) ==
  LineFrom(<<x0, y0>>, <<x1, y1>>, <<Abs(x1 - x0), Abs(y1 - y0)>>,
           <<IF x0 < x1 THEN 1 ELSE 0 - 1, IF y0 < y1 THEN 1 ELSE 0 - 1>>,
           Abs(x1 - x0) - Abs(y1 - y0))

\* the assignment without the roadType === null test
MarkTileOverwrite(map, tx, ty, roadType) ==
  IF ty \in DOMAIN map /\ tx \in DOMAIN map[ty]
  THEN [map EXCEPT ![ty][tx].roadType = roadType]
  ELSE map

\* the body of the two width loops for the tile (tx, ty)
MarkTile(map, tx, ty, roadType) ==
  IF /\ ty \in DOMAIN map
     /\ tx \in DOMAIN map[ty]
     /\ map[ty][tx].roadType = Null
  THEN [map EXCEPT ![ty][tx].roadType = roadType]
  ELSE map

RECURSIVE MarkWindow(_, _, _, _, _, _)
\* the callback at line point (x, y): the dx and dy loops from step i on,
\* dx the outer loop
MarkWindow(map, x, y, roadWidth, roadType, i) ==
  IF i >= ((2 * roadWidth) + 1) * ((2 * roadWidth) + 1) THEN map
  ELSE Bind(MarkTile(map, (x - roadWidth) + (i \div ((2 * roadWidth) + 1)),
                          (y - roadWidth) + (i % ((2 * roadWidth) + 1)), roadType),
            LAMBDA next : MarkWindow(next, x, y, roadWidth, roadType, i + 1))

RECURSIVE MarkLine(_, _, _, _, _)
\* the callback applied to the points of one line from index i on
MarkLine(map, points, i, roadWidth, roadType) ==
  IF i > Len(points) THEN map
  ELSE Bind(MarkWindow(map, points[i][1], points[i][2], roadWidth, roadType, 0),
            LAMBDA next : MarkLine(next, points, i + 1, roadWidth, roadType))

RECURSIVE MarkEdges(_, _, _, _, _)
\* the loop over graph.getEdges() from edge i on
MarkEdges(map, graph, i, roadWidth, roadType) ==
  IF i > Len(graph.edges) THEN map
  ELSE Bind2(graph.nodes[graph.edges[i].from + 1], graph.nodes[graph.edges[i].to + 1],
             LAMBDA from, to :
       Bind(drawLineOnGrid(from.x, from.y, to.x, to.y), LAMBDA points :
         Bind(MarkLine(map, points, 1, roadWidth, roadType), LAMBDA next :
           MarkEdges(next, graph, i + 1, roadWidth, roadType))))

\* rasterizeroads(tileMap, graph, options): the tile map after the call
rasterizeroads(map, graph, options) ==
  MarkEdges(map, graph, 1, OrDefault(options.roadWidth, 0, 1),
            OrDefault(options.roadType, "", "road"))

\* a graph as generateGraph builds it from its draws
GraphOf(center, offsets, parents) ==
  [nodes |-> <<RoadNode(center[1] * 100, center[2] * 100)>> \o
             [i \in 1..Len(offsets) |->
                RoadNode((center[1] * 100) + offsets[i][1],
                         (center[2] * 100) + offsets[i][2])],
   edges |-> [i \in 1..Len(parents) |-> RoadEdge(parents[i], i)]]

\* graphs handed to rasterizeroads
RasterGraphs ==
  <<GraphOf(<<3, 3>>, <<<<650, 0 - 310>>, <<0 - 425, 1137>>,
                        <<650, 0 - 310>>, <<0 - 425, 1137>>>>, <<0, 0, 1, 2>>),
    GraphOf(<<0, 0>>, <<<<650, 0 - 310>>, <<0 - 425, 1137>>,
                        <<0 - 425, 1137>>, <<650, 0 - 310>>>>, <<0, 1, 3, 0>>)>>

\* options objects handed to rasterizeroads
RasterOptions ==
  {[roadWidth |-> None, roadType |-> None],
   [roadWidth |-> Some(0), roadType |-> Some("path")],
   [roadWidth |-> Some(2), roadType |-> None],
   [roadWidth |-> Some(2), roadType |-> Some("path")]}

\* (cx, cy, seed) of the grids handed to rasterizeroads: a chunk with a
\* village, one with a dungeon, one without a structure
RasterChunks == {<<0 - 1, 0, 22399>>, <<0, 0, 22399>>, <<0, 0, 12345>>}

\* calls of rasterizeroads made on one grid
MaxRasterCalls == 2

\* tileMap = generateChunk(cx, cy, seed, noiseLayers)
RasterGenerate(cx, cy, seed) ==
  /\ tileMap' = Some(generateChunk(cx, cy, seed, <<>>).chunk)
  /\ rasterLog' = <<>>
  /\ UNCHANGED <<cacheVars, histVars, roadVars, callVars, fnVars>>

\* rasterizeroads(tileMap, RasterGraphs[g], options)
Rasterize(g, options) ==
  /\ tileMap # None
  /\ Len(rasterLog) < MaxRasterCalls
  /\ rasterLog' = Append(rasterLog, [graph |-> g, options |-> options])
  /\ tileMap' = Some(rasterizeroads(tileMap[1], RasterGraphs[g], options))
  /\ UNCHANGED <<cacheVars, histVars, roadVars, callVars, fnVars>>

NextRaster ==
  \/ \E c \in RasterChunks : RasterGenerate(c[1], c[2], c[3])
  \/ \E g \in DOMAIN RasterGraphs, o \in RasterOptions : Rasterize(g, o)

SpecRaster == Init /\ [][NextRaster]_vars

\* ------------------------------------------------------------------------
\* Properties of road rasterization
\* ------------------------------------------------------------------------

\* the tiles of a grid that carry a road tag, with their tags
RoadTags(map0) ==
  Bind(map0, LAMBDA map :
    {t \in {<<ty, tx, map[ty][tx].roadType>> : ty \in LocalRange, tx \in LocalRange} :
       t[3] # Null})

\* C12: rasterizeroads never changes a tile whose roadType is non-null, also
\* under another roadType option; it changes no field but roadType, gives the
\* tiles it tags the roadType of the call, and keeps the shape of the grid;
\* a second run with the same graph and width, under either roadType, leaves
\* the tagged tiles and their tags as they are.
C12_FirstWriterWins ==
  [][\A g \in DOMAIN RasterGraphs, o \in RasterOptions :
       (/\ rasterLog' = Append(rasterLog, [graph |-> g, options |-> o])
        /\ Rasterize(g, o))
       => /\ DOMAIN tileMap'[1] = LocalRange
          /\ \A ty \in LocalRange : DOMAIN tileMap'[1][ty] = LocalRange
          /\ \A ty \in LocalRange, tx \in LocalRange :
               /\ tileMap[1][ty][tx].roadType # Null
                  => tileMap'[1][ty][tx] = tileMap[1][ty][tx]
               /\ tileMap'[1][ty][tx] \in
                    {tileMap[1][ty][tx],
                     [tileMap[1][ty][tx] EXCEPT
                        !.roadType = OrDefault(o.roadType, "", "road")]}
          /\ \A t \in {None, Some("path")} :
               RoadTags(rasterizeroads(tileMap'[1], RasterGraphs[g],
                                       [o EXCEPT !.roadType = t]))
                 = RoadTags(tileMap'[1])]_vars

\* a second call under another roadType tagged new tiles and left the tags
\* of the first call in place
C12_Witness ==
  /\ tileMap # None
  /\ Len(rasterLog) = 2
  /\ rasterLog[1].options.roadType = None
  /\ rasterLog[2].options.roadType = Some("path")
  /\ \E a, b \in RoadTags(tileMap[1]) : a[3] = "road" /\ b[3] = "path"
  /\ \E ty \in LocalRange, tx \in LocalRange : tileMap[1][ty][tx].roadType = Null

\* C13 as stated: in every state reached by generateChunk followed by any
\* rasterizeroads calls on the generated grid, no tile has a scatter object
\* while it has a structure, a road tag or the biome water.
C13_ScatterExclusive ==
  tileMap # None
  => \A ty \in LocalRange, tx \in LocalRange :
       tileMap[1][ty][tx].object # Null
       => /\ tileMap[1][ty][tx].structure = Null
          /\ tileMap[1][ty][tx].roadType = Null
          /\ tileMap[1][ty][tx].biome # "water"

\* ------------------------------------------------------------------------
\* Properties of autotiling
\* ------------------------------------------------------------------------

\* the neighbour of bit i as (dx, dy): N, NE, E, SE, S, SW, W, NW, with
\* north towards smaller y and east towards larger x
Compass ==
  [i \in 0..7 |->
     CASE i = 0 -> <<0, 0 - 1>> [] i = 1 -> <<1, 0 - 1>>
       [] i = 2 -> <<1, 0>>     [] i = 3 -> <<1, 1>>
       [] i = 4 -> <<0, 1>>     [] i = 5 -> <<0 - 1, 1>>
       [] i = 6 -> <<0 - 1, 0>> [] i = 7 -> <<0 - 1, 0 - 1>>]

BitSet(mask, i) == (mask \div (2 ^ i)) % 2 = 1

InChunk(x, y) == x \in LocalRange /\ y \in LocalRange

\* bit i of the mask of tile (x, y) of a grid says that neighbour i is in
\* the chunk and compatible
MaskAsDefined(grid, x, y) ==
  /\ grid[x][y].tileMask # None
  /\ grid[x][y].tileMask[1] \in 0..255
  /\ \A i \in 0..7 :
       BitSet(grid[x][y].tileMask[1], i)
         <=> /\ InChunk(x + Compass[i][1], y + Compass[i][2])
             /\ canTransition(grid[x][y].biome,
                              grid[x + Compass[i][1]][y + Compass[i][2]].biome)

InitCallOf(argSet) ==
  /\ InitCache
  /\ InitRoad
  /\ InitCall
  /\ InitRaster
  /\ fnArgs \in {Some(a) : a \in argSet}
  /\ fnOut = None

\* the call returns value
Return(value) ==
  /\ fnArgs # None
  /\ fnOut = None
  /\ fnOut' = Some(value)
  /\ UNCHANGED <<fnArgs, cacheVars, histVars, roadVars, callVars, rasterVars>>

Returned == fnArgs # None /\ fnOut # None

\* getVariantFromMask(mask) for every 8-bit mask
VariantArgs == [mask : 0..255]

CallGetVariantFromMask ==
  /\ fnArgs # None
  /\ Return(getVariantFromMask(fnArgs[1].mask))

SpecVariant == InitCallOf(VariantArgs) /\ [][CallGetVariantFromMask]_vars

\* C15 as stated: a mask with an exact entry in TILE_VARIANTS gets that
\* entry, and every other mask in 0..255 gets the record returned for 0xFF.
C15_FallbackIsAllCompatible ==
  Returned
  => fnOut[1] = IF fnArgs[1].mask \in DOMAIN TILE_VARIANTS
                THEN TILE_VARIANTS[fnArgs[1].mask]
                ELSE getVariantFromMask(255)

\* ------------------------------------------------------------------------
\* classifyBiome on values around its thresholds (hundredths of [0, 1])
\* ------------------------------------------------------------------------

BiomeLevels ==
  {0, 10, 29, 30, 31, 34, 35, 36, 39, 40, 41, 59, 60, 61, 69, 70, 71,
   79, 80, 81, 89, 90, 91, 95, 100}

BiomeArgs ==
  [elevation : BiomeLevels, temperature : BiomeLevels, humidity : BiomeLevels]

CallClassifyBiome ==
  /\ fnArgs # None
  /\ Return(classifyBiome(fnArgs[1].elevation, fnArgs[1].temperature,
       fnArgs[1].humidity))

SpecBiome == InitCallOf(BiomeArgs) /\ [][CallClassifyBiome]_vars

\* the rules of the cascade in their order: condition and biome
CascadeRules(e, t, h) ==
  << <<e < 30, "water">>, <<e < 35, "sand">>,
     <<e > 80 /\ e > 90, "snow">>, <<e > 80, "mountain">>,
     <<t > 70 /\ h < 40, "desert">>, <<t < 30, "snow">>,
     <<h > 60, "forest">>, <<TRUE, "grass">> >>

\* the biome of the first rule whose condition holds
FirstMatch(rules) ==
  rules[CHOOSE i \in DOMAIN rules :
          rules[i][1] /\ \A j \in 1..(i - 1) : ~rules[j][1]][2]

\* C16: classifyBiome returns the biome of the first matching rule of the
\* cascade; elevation below 0.3 gives water and elevation above 0.9 gives
\* snow whatever temperature and humidity are; the result is never village
\* or dungeon.
C16_BiomeCascade ==
  Returned
  => /\ fnOut[1] = FirstMatch(CascadeRules(fnArgs[1].elevation,
                                           fnArgs[1].temperature,
                                           fnArgs[1].humidity))
     /\ fnArgs[1].elevation < 30 => fnOut[1] = "water"
     /\ fnArgs[1].elevation > 90 => fnOut[1] = "snow"
     /\ fnOut[1] \in {"water", "sand", "snow", "mountain", "desert",
                      "forest", "grass"}

\* a hot and dry point above the snow line is snow, not desert
C16_Witness ==
  /\ Returned
  /\ fnArgs[1].elevation = 95
  /\ fnArgs[1].temperature > 70 /\ fnArgs[1].humidity < 40
  /\ fnOut[1] = "snow"

\* ------------------------------------------------------------------------
\* Structure placement in the generated grids
\* ------------------------------------------------------------------------

\* the template of a chunk whose structure type is T, None without a type
TemplateAt(T, cx, cy, seed) ==
  IF T = Null THEN None
  ELSE Bind(getRandomizedTemplate(T, seed + (cx * 123456) + (cy * 789012)),
            LAMBDA data : IF data = None THEN None ELSE Some(data[1].template))

\* the offset that centers a template of side n in the chunk, rounded down
CenterStart(n) ==
  CHOOSE s \in (0 - CHUNK_SIZE)..CHUNK_SIZE :
    2 * s <= CHUNK_SIZE - n /\ CHUNK_SIZE - n <= (2 * s) + 1

\* local position (x, y) falls on a marked cell of the centered template
OnMarkedCell(template, x, y) ==
  /\ template # None
  /\ \E s \in {CenterStart(Len(template[1]))} :
       /\ (x - s) \in 0..(Len(template[1]) - 1)
       /\ (y - s) \in 0..(Len(template[1]) - 1)
       /\ template[1][(y - s) + 1][(x - s) + 1] # "."

\* village: grass or forest only; dungeon: any biome except water
PassesCanPlace(T, biome) ==
  \/ T = "village" /\ biome \in {"grass", "forest"}
  \/ T = "dungeon" /\ biome # "water"

\* what the noise layers alone give at a world position
SampledTerrain(seed, worldX, worldY) ==
  Bind3(ElevationAt(seed, worldX, worldY), TemperatureAt(seed, worldX, worldY),
        HumidityAt(seed, worldX, worldY),
        LAMBDA e, t, h : [elevation |-> e, biome |-> classifyBiome(e, t, h)])

\* the sampled terrain of every tile of the window under every seed
TerrainTable ==
  LET D == Seeds \X ChunkXs \X ChunkYs
  IN  Eager([a \in D |->
        Eager([x \in LocalRange |-> Eager([y \in LocalRange |->
          SampledTerrain(a[1], (a[2] * CHUNK_SIZE) + x,
                               (a[3] * CHUNK_SIZE) + y)])])])

\* the tile at local (x, y) of a grid is as placement of type T with the
\* given template over the given terrain leaves it
PlacedAsStated(tile, terrain, T, template, x, y) ==
  IF T # Null /\ OnMarkedCell(template, x, y) /\ PassesCanPlace(T, terrain.biome)
  THEN /\ tile.structure = T
       /\ tile.biome = T
       /\ tile.elevation = IF T = "village" THEN 50 ELSE terrain.elevation
  ELSE /\ tile.structure = Null
       /\ tile.biome = terrain.biome
       /\ tile.elevation = terrain.elevation

\* C17: in every generated grid a tile has structure = T exactly when the
\* chunk's structure type is T, the tile falls on a marked cell of the
\* chunk's template centered in the chunk and the tile's classified biome
\* passes canPlace; such a tile has biome = T and, for a village, elevation
\* 0.5; every other tile keeps its classified biome and sampled elevation.
C17_StructurePlacement ==
  \A c \in Window :
    KeyOf[c] \in DOMAIN chunks
    => \A T \in {genLocals[KeyOf[c]].structureType} :
       \A template \in {TemplateAt(T, c[1], c[2], worldSeed)} :
       \A x \in LocalRange, y \in LocalRange :
         PlacedAsStated(chunks[KeyOf[c]][x][y],
                        TerrainTable[<<worldSeed, c[1], c[2]>>][x][y],
                        T, template, x, y)

\* a cached grid of a structure chunk with a placed tile, a marked cell
\* whose biome was rejected, and a tile off the marked cells
C17_Witness ==
  \E c \in Window :
    /\ KeyOf[c] \in DOMAIN chunks
    /\ genLocals[KeyOf[c]].structureType # Null
    /\ \E template \in {TemplateAt(genLocals[KeyOf[c]].structureType,
                                   c[1], c[2], worldSeed)} :
         /\ \E x \in LocalRange, y \in LocalRange :
              chunks[KeyOf[c]][x][y].structure # Null
         /\ \E x \in LocalRange, y \in LocalRange :
              /\ OnMarkedCell(template, x, y)
              /\ chunks[KeyOf[c]][x][y].structure = Null
         /\ \E x \in LocalRange, y \in LocalRange :
              ~OnMarkedCell(template, x, y)

\* ------------------------------------------------------------------------
\* Template transforms as calls: rotateTemplate, scaleTemplate and
\* getRandomizedTemplate on bounded arguments
\* ------------------------------------------------------------------------

TemplateSides == {1, 2, 3}

\* every square template of those sides over an empty and a marked cell
SquareTemplates ==
  UNION {[1..n -> [1..n -> {".", "V"}]] : n \in TemplateSides}

\* rotation counts handed to rotateTemplate
MaxTurns == 4

\* scale factors handed to scaleTemplate
MaxScale == 3

\* seeds handed to getRandomizedTemplate
MaxTemplateSeed == 47
TemplateSeeds == 0..MaxTemplateSeed

TemplateArgs ==
  [fn : {"rotateTemplate"}, template : SquareTemplates, rotations : 0..MaxTurns]
  \cup [fn : {"scaleTemplate"}, template : SquareTemplates, scale : 1..MaxScale]
  \cup [fn : {"getRandomizedTemplate"}, structureType : StructureTypes,
        seed : TemplateSeeds \cup Seeds]

Calling(fn) == fnArgs # None /\ fnArgs[1].fn = fn

CallRotateTemplate ==
  /\ Calling("rotateTemplate")
  /\ Return(rotateTemplate(fnArgs[1].template, fnArgs[1].rotations))

CallScaleTemplate ==
  /\ Calling("scaleTemplate")
  /\ Return(scaleTemplate(fnArgs[1].template, fnArgs[1].scale))

CallGetRandomizedTemplate ==
  /\ Calling("getRandomizedTemplate")
  /\ Return(getRandomizedTemplate(fnArgs[1].structureType, fnArgs[1].seed))

NextTemplate ==
  \/ CallRotateTemplate
  \/ CallScaleTemplate
  \/ CallGetRandomizedTemplate

SpecTemplate == InitCallOf(TemplateArgs) /\ [][NextTemplate]_vars

\* r is t after one clockwise quarter turn: r[y][x] = t[n-1-x][y], 0-based
IsQuarterTurn(r, t) ==
  /\ Len(r) = Len(t)
  /\ \A y \in 0..(Len(t) - 1) :
       /\ Len(r[y + 1]) = Len(t)
       /\ \A x \in 0..(Len(t) - 1) :
            r[y + 1][x + 1] = t[((Len(t) - 1) - x) + 1][y + 1]

\* r is t with every cell expanded into an s by s block
IsScaled(r, t, s) ==
  /\ Len(r) = s * Len(t)
  /\ \A y \in 0..((s * Len(t)) - 1) :
       /\ Len(r[y + 1]) = s * Len(t)
       /\ \A x \in 0..((s * Len(t)) - 1) :
            r[y + 1][x + 1] = t[(y \div s) + 1][(x \div s) + 1]

MarkedCells(t) ==
  Cardinality({c \in (1..Len(t)) \X (1..Len(t)) : t[c[1]][c[2]] # "."})

\* C18: rotateTemplate(t, 1)[y][x] = t[n-1-x][y]; rotateTemplate(t, k) for
\* k in 0..3 is k such turns, and a fourth turn gives t back;
\* scaleTemplate(t, s)[y][x] = t[y div s][x div s] with side s * n and s = 1
\* returns t; getRandomizedTemplate returns a rotation in 0..3, a scale in
\* {1, 2} and a template with scale * scale times the marked cells of the
\* base template.
C18_TemplateTransforms ==
  Returned
  => \A a \in {fnArgs[1]}, out \in {fnOut[1]} :
       /\ a.fn = "rotateTemplate"
          => /\ a.rotations \in {0, 4} => out = a.template
             /\ a.rotations \in 1..3
                => IsQuarterTurn(out, rotateTemplate(a.template, a.rotations - 1))
             /\ a.rotations = 3 => IsQuarterTurn(a.template, out)
       /\ a.fn = "scaleTemplate"
          => /\ IsScaled(out, a.template, a.scale)
             /\ a.scale = 1 => out = a.template
       /\ a.fn = "getRandomizedTemplate"
          => /\ out # None
             /\ out[1].rotation \in {0, 1, 2, 3}
             /\ out[1].scale \in {1, 2}
             /\ MarkedCells(out[1].template)
                  = out[1].scale * out[1].scale
                      * MarkedCells(STRUCTURE_TEMPLATES[a.structureType])

\* three quarter turns of a template that no turn maps to itself
C18_Witness ==
  /\ Returned
  /\ fnArgs[1].fn = "rotateTemplate"
  /\ fnArgs[1].rotations = 3
  /\ Len(fnArgs[1].template) = 3
  /\ fnOut[1] # fnArgs[1].template
  /\ ~IsQuarterTurn(fnOut[1], fnArgs[1].template)

\* ------------------------------------------------------------------------
\* The seeds generateChunk derives for a chunk
\* ------------------------------------------------------------------------

\* chunk coordinates of the calls: three grid cells each way
MaxSeedCoord == 4
SeedCoords == (0 - MaxSeedCoord)..MaxSeedCoord

DerivedSeedArgs == [seed : Seeds, cx : SeedCoords, cy : SeedCoords]

\* the seeds of the streams generateChunk(cx, cy, seed) creates
DerivedSeeds(cx, cy, seed) ==
  [grid |-> GridSeed(seed, cx \div STRUCTURE_SPACING, cy \div STRUCTURE_SPACING),
   template |-> TemplateSeed(seed, cx, cy),
   tile |-> ChunkRngSeed(seed, cx, cy)]

CallDerivedSeeds ==
  /\ fnArgs # None
  /\ Return(DerivedSeeds(fnArgs[1].cx, fnArgs[1].cy, fnArgs[1].seed))

SpecSeeds == InitCallOf(DerivedSeedArgs) /\ [][CallDerivedSeeds]_vars

\* C19: for every world seed and chunk coordinate the seeds of cell
\* occupancy, template choice and tile variation are pairwise different.
C19_DerivedSeedsDiffer ==
  Returned
  => /\ fnOut[1].grid # fnOut[1].template
     /\ fnOut[1].grid # fnOut[1].tile
     /\ fnOut[1].template # fnOut[1].tile

\* ------------------------------------------------------------------------
\* Two generators created from one seed, called independently
\* ------------------------------------------------------------------------

\* seeds at and between the ends of the 32-bit range
StreamSeeds == Seeds \cup {0, 1, 0 - 1, 2147483647, 0 - 2147483647}

\* the ranges handed to seededRandomInt, min < max
MaxWidth == 6
StreamRanges ==
  {r \in [min : {0 - 3, 0, 5}, max : (0 - 2)..(5 + MaxWidth)] :
     r.min < r.max /\ r.max - r.min \in {1, 2, MaxWidth}}

\* calls made on each generator
MaxDraws == 3

StreamArgs == [seed : StreamSeeds, range : StreamRanges]

\* rngA = createSeededRandom(seed); rngB = createSeededRandom(seed)
CreateStreams ==
  /\ fnArgs # None
  /\ fnOut = None
  /\ fnOut' = Some([a |-> <<ToWord(fnArgs[1].seed), ToWord(fnArgs[1].seed)>>,
                    values |-> <<<<>>, <<>>>>,
                    last |-> None])
  /\ UNCHANGED <<fnArgs, cacheVars, histVars, roadVars, callVars, rasterVars>>

\* rng() on generator g
StreamNext(g) ==
  /\ Returned
  /\ Len(fnOut[1].values[g]) < MaxDraws
  /\ \E c \in {MulberryCall(fnOut[1].a[g])} :
       fnOut' = Some([fnOut[1] EXCEPT !.a[g] = c.a,
                                      !.values[g] = Append(@, c.value),
                                      !.last = None])
  /\ UNCHANGED <<fnArgs, cacheVars, histVars, roadVars, callVars, rasterVars>>

\* seededRandomInt(rng, min, max) on generator g
StreamNextInt(g) ==
  /\ Returned
  /\ Len(fnOut[1].values[g]) < MaxDraws
  /\ \E c \in {MulberryCall(fnOut[1].a[g])} :
       fnOut' = Some([fnOut[1] EXCEPT
                        !.a[g] = c.a,
                        !.values[g] = Append(@, c.value),
                        !.last = Some(seededRandomInt(c.value,
                                        fnArgs[1].range.min,
                                        fnArgs[1].range.max))])
  /\ UNCHANGED <<fnArgs, cacheVars, histVars, roadVars, callVars, rasterVars>>

NextStream ==
  \/ CreateStreams
  \/ \E g \in {1, 2} : StreamNext(g)
  \/ \E g \in {1, 2} : StreamNextInt(g)

SpecStream == InitCallOf(StreamArgs) /\ [][NextStream]_vars

\* k is the numerator of a value k / 2^32 with 0 <= k < 2^32
IsUnitNumerator(k) ==
  /\ DOMAIN k = {"hi", "lo"}
  /\ k.hi \in 0..(Half - 1)
  /\ k.lo \in 0..(Half - 1)

\* C20: every value a generator yields is k / 2^32 with 0 <= k < 2^32, at
\* every position it equals the value of the closed form for that seed and
\* position, seededRandomInt(rng, min, max) with min < max yields an integer
\* in [min, max), and two generators created from equal seeds yield the same
\* value at every position both have reached.
C20_StreamRanges ==
  Returned
  => /\ \A g \in {1, 2} : \A n \in 1..Len(fnOut[1].values[g]) :
          /\ IsUnitNumerator(fnOut[1].values[g][n])
          /\ fnOut[1].values[g][n] = createSeededRandom(fnArgs[1].seed, n)
     /\ \A n \in 1..Len(fnOut[1].values[1]) :
          n <= Len(fnOut[1].values[2])
          => fnOut[1].values[1][n] = fnOut[1].values[2][n]
     /\ fnOut[1].last # None
        => /\ fnOut[1].last[1] \in Int
           /\ fnArgs[1].range.min <= fnOut[1].last[1]
           /\ fnOut[1].last[1] < fnArgs[1].range.max

\* both generators were called, unevenly, and the last call drew the
\* largest integer of a range of several
C20_Witness ==
  /\ Returned
  /\ Len(fnOut[1].values[1]) = MaxDraws
  /\ Len(fnOut[1].values[2]) = 2
  /\ fnOut[1].values[1][1] # fnOut[1].values[1][2]
  /\ fnArgs[1].range.max - fnArgs[1].range.min > 1
  /\ fnArgs[1].range.min < 0
  /\ fnOut[1].last = Some(fnArgs[1].range.max - 1)

\* ------------------------------------------------------------------------
\* getScatterType on every biome and density (hundredths of [0, 1])
\* ------------------------------------------------------------------------

ClosedBiomes ==
  {"water", "sand", "grass", "forest", "mountain", "snow", "desert",
   "village", "dungeon"}

ScatterArgs ==
  [biome : ClosedBiomes, structure : StructureTypes \cup {Null},
   density : 0..100]

CallGetScatterType ==
  /\ fnArgs # None
  /\ Return(getScatterType([NewTile(0, 0) EXCEPT
                              !.biome = fnArgs[1].biome,
                              !.structure = fnArgs[1].structure],
                           fnArgs[1].density))

SpecScatter == InitCallOf(ScatterArgs) /\ [][CallGetScatterType]_vars

\* the tree band and the rock band of a biome at density d
InTreeBand(biome, d) ==
  \/ biome = "forest" /\ d > 55
  \/ biome = "grass" /\ d > 75

InRockBand(biome, d) ==
  \/ biome = "grass" /\ 65 < d /\ d < 70
  \/ biome = "mountain" /\ d > 60
  \/ biome = "desert" /\ d > 70

\* C21: getScatterType returns tree exactly in the tree band of the tile's
\* biome and rock exactly in its rock band, nothing outside the bands, on
\* water, sand, snow, village and dungeon and on a tile with a structure;
\* the two bands of one biome never overlap.
C21_ScatterBands ==
  Returned
  => \A a \in {fnArgs[1]} :
       /\ fnOut[1] \in {Null, "tree", "rock"}
       /\ fnOut[1] = "tree"
            <=> a.structure = Null /\ InTreeBand(a.biome, a.density)
       /\ fnOut[1] = "rock"
            <=> a.structure = Null /\ InRockBand(a.biome, a.density)
       /\ ~(InTreeBand(a.biome, a.density) /\ InRockBand(a.biome, a.density))
       /\ (a.structure # Null
           \/ a.biome \in {"water", "sand", "snow", "village", "dungeon"})
          => fnOut[1] = Null

\* grass between its rock band and its tree band carries nothing
C21_Witness ==
  /\ Returned
  /\ fnArgs[1].biome = "grass"
  /\ fnArgs[1].structure = Null
  /\ fnArgs[1].density = 72
  /\ fnOut[1] = Null

\* ------------------------------------------------------------------------
\* Shape of the generated grids
\* ------------------------------------------------------------------------

\* C22: every cached grid, of chunks at negative coordinates too, is
\* CHUNK_SIZE by CHUNK_SIZE with a tile at every position; the tile at
\* [lx][ly] has x = cx * CHUNK_SIZE + lx and y = cy * CHUNK_SIZE + ly and a
\* biome of the closed set.
C22_ChunkWellFormed ==
  \A c \in Window :
    KeyOf[c] \in DOMAIN chunks
    => \A grid \in {chunks[KeyOf[c]]} :
         /\ DOMAIN grid = 0..(CHUNK_SIZE - 1)
         /\ \A lx \in DOMAIN grid :
              /\ DOMAIN grid[lx] = 0..(CHUNK_SIZE - 1)
              /\ \A ly \in DOMAIN grid[lx] :
                   /\ grid[lx][ly].x = (c[1] * CHUNK_SIZE) + lx
                   /\ grid[lx][ly].y = (c[2] * CHUNK_SIZE) + ly
                   /\ grid[lx][ly].biome \in ClosedBiomes

\* the grid of a chunk left of the origin is cached: its last column is
\* world column -1
C22_Witness ==
  \E c \in Window :
    /\ c[1] < 0
    /\ KeyOf[c] \in DOMAIN chunks
    /\ ret = Some(chunks[KeyOf[c]])
    /\ chunks[KeyOf[c]][CHUNK_SIZE - 1][0].x = 0 - 1
    /\ chunks[KeyOf[c]][0][CHUNK_SIZE - 1].y = ((c[2] + 1) * CHUNK_SIZE) - 1

\* ------------------------------------------------------------------------
\* Cached grids are not written again
\* ------------------------------------------------------------------------

\* C23: no ChunkCache operation changes a tile of a grid that stays cached,
\* and an operation that generates a chunk adds that one grid to the cache
\* and leaves the world seed alone.
C23_ChunkImmutable ==
  [][/\ \A key \in DOMAIN chunks \cap DOMAIN chunks' :
          chunks'[key] = chunks[key]
     /\ lastOp'.generated
        => /\ Cardinality(DOMAIN chunks' \ DOMAIN chunks) = 1
           /\ DOMAIN chunks \subseteq DOMAIN chunks'
           /\ worldSeed' = worldSeed]_vars

\* a chunk was generated next to a cached grid without a structure and left
\* a record in range of it: the cached grid was not brought up to date
C23_Witness ==
  /\ lastOp.generated
  /\ \E c \in Window :
       /\ KeyOf[c] \in DOMAIN chunks
       /\ genLocals[KeyOf[c]].structureType = Null
       /\ NearIndexes(registry, c[1], c[2]) # {}

\* ------------------------------------------------------------------------
\* The adoption step of one generateChunk call
\* ------------------------------------------------------------------------

\* the structure type of a call on registry reg is the chunk's own roll, or
\* without a roll the type of the first record of reg within distance 1,
\* or none; the origin it names is within distance 1
AdoptionAsStated(reg, out) ==
  \A rolled \in {RolledType(callArgs.cx, callArgs.cy, callArgs.seed)},
     near \in {NearIndexes(reg, callArgs.cx, callArgs.cy)} :
    /\ rolled # Null => out.structureType = rolled /\ out.structureChunk = None
    /\ (rolled = Null /\ near = {})
       => out.structureType = Null /\ out.structureChunk = None
    /\ (rolled = Null /\ near # {})
       => /\ out.structureType = reg[MinOf(near)].type
          /\ out.structureChunk = Some(getChunkKey(reg[MinOf(near)].cx,
                                                   reg[MinOf(near)].cy))
    /\ out.structureChunk # None
       => \E i \in 1..Len(reg) :
            /\ out.structureChunk = Some(getChunkKey(reg[i].cx, reg[i].cy))
            /\ Chebyshev(callArgs.cx, callArgs.cy, reg[i].cx, reg[i].cy) <= 1

\* C24: a chunk that rolled its own structure has that type whatever other
\* records exist; otherwise it has the type of the first record, in
\* insertion order, within Chebyshev distance 1, and none when there is no
\* such record; a record at distance 2 or more is never adopted.
C24_AdoptionStep ==
  /\ callOutA # None => AdoptionAsStated(callArgs.regA, callOutA[1])
  /\ callOutB # None => AdoptionAsStated(callArgs.regB, callOutB[1])

\* a call kept its own roll although a record of another type came first
\* in range
C24_Witness ==
  /\ callOutA # None
  /\ RolledType(callArgs.cx, callArgs.cy, callArgs.seed) # Null
  /\ Len(callArgs.regA) > 0
  /\ callArgs.regA[1].type # callOutA[1].structureType
  /\ Chebyshev(callArgs.cx, callArgs.cy,
               callArgs.regA[1].cx, callArgs.regA[1].cy) = 1

\* ------------------------------------------------------------------------
\* Structure tiles and the autotiling pass
\* ------------------------------------------------------------------------

VariantRecords == {TILE_VARIANTS[m] : m \in DOMAIN TILE_VARIANTS}

MaxLine == 3
LineCoords == (0 - MaxLine)..MaxLine

LineArgs == [x0 : LineCoords, y0 : LineCoords, x1 : LineCoords, y1 : LineCoords]

CallDrawLineOnGrid ==
  /\ fnArgs # None
  /\ Return(drawLineOnGrid(fnArgs[1].x0, fnArgs[1].y0, fnArgs[1].x1, fnArgs[1].y1))

SpecLine == InitCallOf(LineArgs) /\ [][CallDrawLineOnGrid]_vars

MaxOf2(a, b) == IF a > b THEN a ELSE b

\* C26: drawLineOnGrid returns after calling the callback first on (x0, y0)
\* and last on (x1, y1), max(|x1 - x0|, |y1 - y0|) + 1 times in all, and two
\* consecutive points differ by at most 1 in each coordinate.
C26_LineWalk ==
  Returned
  => \A a \in {fnArgs[1]}, points \in {fnOut[1]} :
       /\ Len(points) = MaxOf2(Abs(a.x1 - a.x0), Abs(a.y1 - a.y0)) + 1
       /\ points[1] = <<a.x0, a.y0>>
       /\ points[Len(points)] = <<a.x1, a.y1>>
       /\ \A i \in 1..(Len(points) - 1) :
            /\ Abs(points[i + 1][1] - points[i][1]) <= 1
            /\ Abs(points[i + 1][2] - points[i][2]) <= 1

\* a walk up and to the left that is neither straight nor diagonal
C26_Witness ==
  /\ Returned
  /\ fnArgs[1].x1 < fnArgs[1].x0
  /\ fnArgs[1].y1 > fnArgs[1].y0
  /\ fnArgs[1].x0 - fnArgs[1].x1 > fnArgs[1].y1 - fnArgs[1].y0
  /\ Len(fnOut[1]) = (fnArgs[1].x0 - fnArgs[1].x1) + 1
  /\ Len(fnOut[1]) > 3

\* ------------------------------------------------------------------------
\* applyChunkAutotiling on a grid built around one tile
\* ------------------------------------------------------------------------

\* the neighbour offsets (dx, dy) of calculateTileMask by direction
DirectionOffset ==
  [n |-> <<0, 0 - 1>>, ne |-> <<1, 0 - 1>>, e |-> <<1, 0>>, se |-> <<1, 1>>,
   s |-> <<0, 1>>, sw |-> <<0 - 1, 1>>, w |-> <<0 - 1, 0>>,
   nw |-> <<0 - 1, 0 - 1>>]

\* a center biome with a biome it can transition to and one it cannot
BiomeTriples ==
  {[center |-> "snow", friend |-> "mountain", other |-> "water"],
   [center |-> "grass", friend |-> "forest", other |-> "water"]}

\* the center biomes and the directions of its compatible neighbours
AutotileArgs == [biomes : BiomeTriples, near : SUBSET DOMAIN DirectionOffset]

\* position of the center tile
Mid == 2

\* the grid: the center at (Mid, Mid), a compatible neighbour in every
\* direction of near, an incompatible biome everywhere else
GridAround(biomes, near) ==
  Eager([x \in 0..(CHUNK_SIZE - 1) |-> Eager([y \in 0..(CHUNK_SIZE - 1) |->
    [NewTile(x, y) EXCEPT !.biome =
       IF x = Mid /\ y = Mid THEN biomes.center
       ELSE IF \E d \in near : <<x - Mid, y - Mid>> = DirectionOffset[d]
            THEN biomes.friend
       ELSE biomes.other]])])

CallApplyChunkAutotiling ==
  /\ fnArgs # None
  /\ Return(applyChunkAutotiling(GridAround(fnArgs[1].biomes, fnArgs[1].near)))

SpecAutotile == InitCallOf(AutotileArgs) /\ [][CallApplyChunkAutotiling]_vars

\* C27: a tile whose only compatible in-chunk neighbour is the one to the
\* North (East, South, West) gets the variant with id "n" ("e", "s", "w").
C27_VariantNamesMatchDirections ==
  Returned
  => \A d \in {"n", "e", "s", "w"} :
       fnArgs[1].near = {d} => fnOut[1][Mid][Mid].tileVariant[1].id = d

\* ------------------------------------------------------------------------
\* canTransition on every pair of biomes
\* ------------------------------------------------------------------------

TransitionArgs == [fromBiome : ClosedBiomes, toBiome : ClosedBiomes]

CallCanTransition ==
  /\ fnArgs # None
  /\ Return(canTransition(fnArgs[1].fromBiome, fnArgs[1].toBiome))

SpecTransition == InitCallOf(TransitionArgs) /\ [][CallCanTransition]_vars

\* C28: canTransition(a, b) = canTransition(b, a) for every pair of biomes
\* of the closed set, and canTransition(a, a) holds.
C28_TransitionSymmetric ==
  Returned
  => /\ fnOut[1] = canTransition(fnArgs[1].toBiome, fnArgs[1].fromBiome)
     /\ fnArgs[1].fromBiome = fnArgs[1].toBiome => fnOut[1] = TRUE

\* ------------------------------------------------------------------------
\* getChunk and unloadDistantChunks under one seed, remembering the first
\* grid generated since the seed was set
\* ------------------------------------------------------------------------

\* a new seed starts the history again
RegenerateWorldForget(newSeed) ==
  /\ RegenerateWorldCall(newSeed)
  /\ firstGen' = None
  /\ UNCHANGED order

NextEvict ==
  \/ \E cx \in ChunkXs, cy \in ChunkYs : GetChunkRecorded(cx, cy)
  \/ \E cx \in ChunkXs, cy \in ChunkYs, k \in Keeps : UnloadDistantChunks(cx, cy, k)
  \/ \E s \in Seeds : RegenerateWorldForget(s)

SpecEvict == Init /\ [][NextEvict]_vars

\* C29: under one seed, a chunk that unloadDistantChunks removed and getChunk
\* generated again has the grid it had before, whatever chunks were
\* requested in between: whenever the first chunk generated under the seed
\* is cached, its grid is the grid of its first generation.
C29_EvictRoundTrip ==
  firstGen # None
  => \A key \in {getChunkKey(firstGen[1].cx, firstGen[1].cy)} :
       key \in DOMAIN chunks => chunks[key] = firstGen[1].grid

\* ------------------------------------------------------------------------
\* The seed of the cached grids
\* ------------------------------------------------------------------------

\* the grids generateChunk can return for chunk c under a seed
GridsOfSeed(seed, c) ==
  {ChunkTable[<<seed, c[1], c[2], T>>] : T \in StructureTypes \cup {Null}}

====
